---- MODULE Spec2Model ----
(***************************************************************************)
(* Model of the eBay price checker: EbayScraper (src/scraper.py) and the   *)
(* part of EbayScraperGUI (src/gui.py) that calls it and shows its result. *)
(*                                                                         *)
(* The browser is the environment.  Every browser operation the code calls *)
(* either returns a value or raises; the model draws that outcome with \E  *)
(* from a small set, and the code's reaction (its conditions, its          *)
(* try/except blocks, its early returns) is what the actions compute.      *)
(*                                                                         *)
(* Text is a sequence of one-character tokens.  The currency signs other   *)
(* than "$" are written "gbp", "eur" and "yen": each stands for the single *)
(* character of that currency.                                             *)
(***************************************************************************)
EXTENDS Integers, Sequences, FiniteSets, TLC

\* Python's None where a string is expected, and where a dict is expected.
NONE == <<"None">>
NoResult == [none |-> TRUE]
\* A return value not yet produced.
Unset == [unset |-> TRUE]

(***************************************************************************)
(* Bounds of the model.                                                    *)
(***************************************************************************)
\* The largest number of result cards a results page holds in the model.
MaxCards == 52
\* Cards containing the store name are counted up to this number.
MatchCap == 2
\* Results pages of the model hold up to FewCards cards, or about ScanLimit;
\* a card that names the store stands among the first FewCards or from
\* position ScanLimit - 1 on.
FewCards == 2

(***************************************************************************)
(* Program constants.                                                      *)
(***************************************************************************)
\* range(min(all_items.count(), 50))
ScanLimit == 50
\* len(link_selectors), and the literal list of the store matcher
NumLinkSelectors == 2
\* len(price_selectors)
NumPriceSelectors == 4
\* len(search_selectors), len(search_button_selectors), len(no_results_selectors)
NumSearchSelectors == 4
NumButtonSelectors == 4
NumConsentSelectors == 4
NumSentinelSelectors == 4

(***************************************************************************)
(* Text: str.strip, str.lower, the `in` test of two strings.               *)
(***************************************************************************)
Min(a, b) == IF a < b THEN a ELSE b

\* Whitespace (\s, and what strip() removes).
Ws == {" "}

\* The end (exclusive) of the longest run of characters of `class` from p.
RunEnd(s, p, class) ==
    CHOOSE q \in p..(Len(s) + 1) :
        /\ \A k \in p..(q - 1) : s[k] \in class
        /\ (q = Len(s) + 1 \/ s[q] \notin class)

\* str.strip(): leading and trailing whitespace removed.
Strip(s) ==
    LET first == RunEnd(s, 1, Ws)
        lasts == {k \in first..Len(s) : s[k] \notin Ws}
    IN  IF first > Len(s) THEN <<>>
        ELSE SubSeq(s, first, CHOOSE k \in lasts : \A j \in lasts : j <= k)

LowerChar(c) ==
    CASE c = "A" -> "a"
      [] c = "B" -> "b"
      [] c = "C" -> "c"
      [] c = "D" -> "d"
      [] c = "E" -> "e"
      [] c = "F" -> "f"
      [] c = "K" -> "k"
      [] c = "R" -> "r"
      [] c = "S" -> "s"
      [] c = "U" -> "u"
      [] c = "Z" -> "z"
      [] OTHER -> c

\* str.lower()
Lower(s) == [k \in DOMAIN s |-> LowerChar(s[k])]

\* Python's `sub in s` for strings.
PyIn(sub, s) ==
    \E k \in 0..(Len(s) - Len(sub)) : SubSeq(s, k + 1, k + Len(sub)) = sub

\* Python truthiness of an optional string: None and "" are false.
Truthy(s) == s # NONE /\ s # <<>>

(***************************************************************************)
(* EbayScraper.clean_price                                                 *)
(***************************************************************************)
\* [\$ gbp eur yen], \d and [\d,]
Syms == {"$", "gbp", "eur", "yen"}
Digits == {"0", "1", "2", "3", "4", "5", "6", "7", "8", "9"}
NumChars == Digits \cup {","}

\* The end (exclusive) of the match of
\*   [\$ gbp eur yen]?\s*[\d,]+\.?\d{0,2}
\* that starts at p, 0 when the pattern does not match at p.  Every
\* quantifier is greedy; only [\d,]+ is mandatory, and neither giving back
\* whitespace nor dropping the optional sign can make it match where the
\* greedy attempt did not.
PriceMatchEnd(s, p) ==
    LET q0 == IF p <= Len(s) /\ s[p] \in Syms THEN p + 1 ELSE p
        q1 == RunEnd(s, q0, Ws)
        q2 == RunEnd(s, q1, NumChars)
        q3 == IF q2 <= Len(s) /\ s[q2] = "." THEN q2 + 1 ELSE q2
        q4 == Min(RunEnd(s, q3, Digits), q3 + 2)
    IN  IF q2 = q1 THEN 0 ELSE q4

\* `price = '$' + price`
DefaultSymbolMut == "gbp"
DefaultSymbol == "$"

\* `price.startswith(('$', gbp, eur, yen))`
StartsWithSymbol(price) == price # <<>> /\ price[1] \in Syms

clean_priceMut(price_text) ==
    IF ~Truthy(price_text) THEN NONE
    ELSE LET s == Strip(price_text)
             starts == {p \in 1..Len(s) : PriceMatchEnd(s, p) # 0}
         IN  IF starts = {} THEN NONE
             ELSE LET p == CHOOSE x \in starts : \A y \in starts : x <= y
                      price == Strip(SubSeq(s, p, PriceMatchEnd(s, p) - 1))
                  IN  IF StartsWithSymbol(s) THEN price
                      ELSE <<DefaultSymbol>> \o price

\* None for None and for the empty text; otherwise re.search on the stripped
\* text: the leftmost match, stripped, with the default sign put in front
\* when it does not start with a currency sign.
clean_price(price_text) ==
    IF ~Truthy(price_text) THEN NONE
    ELSE LET s == Strip(price_text)
             starts == {p \in 1..Len(s) : PriceMatchEnd(s, p) # 0}
         IN  IF starts = {} THEN NONE
             ELSE LET p == CHOOSE x \in starts : \A y \in starts : x <= y
                      price == Strip(SubSeq(s, p, PriceMatchEnd(s, p) - 1))
                  IN  IF StartsWithSymbol(price) THEN price
                      ELSE <<DefaultSymbol>> \o price

(***************************************************************************)
(* State.                                                                  *)
(***************************************************************************)
VARIABLES
    pc,           \* position of the caller / of scrape()
    caller,       \* "gui" (run_scraper), "cli" (main) or "api" (a direct call)
    storeName,    \* scrape()'s store_name argument
    \* fields of EbayScraper
    playwright, browser, context, cookiesFile,
    \* the environment: the browser process, the automation driver, the page
    \* and the outcome of saving the session state
    launched, released, stopped, saved, pageUrl,
    \* history of scrape(): the stage methods called, close() calls
    stages, closeCalls, raised,
    \* handle_cookie_consent: the candidate its loop is at, and (environment)
    \* the consent clicks that succeeded
    consentIdx, consentClicks,
    \* the price loops (environment): the text of the first candidate the
    \* running loop found visible, and the text the stored price came from
    priceSeen, priceFrom,
    \* search_product: its locals search_box and search_button (the position
    \* of the selector in its list, 0 for None), its return value, and what
    \* the environment did to make it return (known until the next stage
    \* starts)
    searchBox, searchButton, searchRet, searchCause,
    \* what the environment saw of the two selector loops: candidates probed,
    \* the first one it answered visible for, a probe that raised, whether
    \* page.fill was called, and the submit call made
    inputProbed, inputSeen, buttonProbed, buttonSeen, probeRaised, filled,
    submitVia,
    sortRet,
    \* extract_lowest_price: locals, return value, what the environment showed
    linkIdx, title, productUrl, priceIdx, result, extractRet,
    envCard, envLink, envPrice,
    \* the listing id and the href the card in hand showed, known until the
    \* navigation to its page is over
    cardId, cardHref,
    \* the store matcher's loop: range limit, index, locals of a matched card
    scanN, i, curHtml, storeTitle, storeUrl,
    \* what the environment showed the store matcher: more cards than the
    \* limit, cards read, cards read that contain the name, the card that
    \* became your_store and its content, a failed return to the results
    moreCards, examined, matchesSeen, storeFrom, storeHtml, backFailed,
    scrapeRet,    \* what scrape() returned
    shown,        \* what the GUI displayed, or what main() printed last
    \* clean_price applied to a text, and to its own result
    pricePc, priceText, cleaned, recleaned,
    \* EbayScraperGUI: is_scraping, the search button, the progress bar, the
    \* results area, the last warning box shown
    isScraping, buttonState, progress, resultsArea, lastWarning,
    \* start_search calls so far, worker threads started so far, and per
    \* worker: its position in run_scraper, what scrape() did in it, and the
    \* callbacks it handed to root.after
    requests, started, wpc, workerGot, scheduledBy,
    queue,        \* root.after callbacks not yet run by the foreground thread
    \* EbayScraper's region: the constructor's arguments, the position in
    \* __init__ / start / set_delivery_location, self.ebay_url, the context's
    \* locale and geolocation, the region the cookies file is named after and
    \* whether the context was seeded from it, the two localStorage items,
    \* set_delivery_location's return value, and an exception raised by a
    \* table lookup
    region, headless, regionPc, ebayUrl, ctxLocale, ctxGeo, cookiesFor, seeded,
    lsPostcode, lsCountry, locRet, lookupRaised,
    \* display_results on its own: position, the result it is given, the view
    \* it renders, the price comparison it prints
    dispPc, dispResult, dispView, verdict,
    \* sort_by_lowest_price's URL on its own: position, the results URL it
    \* reads, the URL it navigates to
    rwPc, rwUrl, rwTarget

scraperVars == <<playwright, browser, context, cookiesFile>>
browserVars == <<launched, released, stopped, saved>>
searchEnv == <<inputProbed, inputSeen, buttonProbed, buttonSeen, probeRaised,
               filled, submitVia>>
searchVars == <<searchBox, searchButton, searchRet, searchCause, searchEnv>>
extractVars == <<linkIdx, title, productUrl, priceIdx, result, extractRet>>
extractEnv == <<envCard, envLink, envPrice>>
cardEnv == <<cardId, cardHref>>
consentVars == <<consentIdx, consentClicks>>
priceEnv == <<priceSeen, priceFrom>>
scanVars == <<scanN, i, curHtml, storeTitle, storeUrl>>
scanEnv == <<moreCards, examined, matchesSeen, storeFrom, storeHtml, backFailed>>

priceVars == <<pricePc, priceText, cleaned, recleaned>>
guiVars == <<isScraping, buttonState, progress, resultsArea, lastWarning,
             requests, started, wpc, workerGot, scheduledBy, queue>>
regionVars == <<region, headless, regionPc, ebayUrl, ctxLocale, ctxGeo,
                cookiesFor, seeded, lsPostcode, lsCountry, locRet,
                lookupRaised>>
displayVars == <<dispPc, dispResult, dispView, verdict>>
rewriteVars == <<rwPc, rwUrl, rwTarget>>
\* What a scrape() leaves alone.
sideVars == <<priceVars, guiVars, regionVars, displayVars, rewriteVars>>

scrapeVars == <<pc, caller, storeName, scraperVars, browserVars, pageUrl,
                stages, closeCalls, raised, searchVars, sortRet, extractVars,
                extractEnv, cardEnv, scanVars, scanEnv, scrapeRet, shown,
                consentVars, priceEnv>>

vars == <<scrapeVars, sideVars>>

(***************************************************************************)
(* Inputs.                                                                 *)
(***************************************************************************)
\* What the user may have typed in the GUI's store field.
StoreEntries == {<<>>, <<" ">>, <<"a", "B">>, <<" ", "a", "B", " ">>}
\* store_name values of a direct call of scrape().
ApiStoreNames == {NONE, <<>>, <<" ">>}
\* inner_html() of a result card.
CardHtmls == {<<"x">>, <<"A", "b", "x">>, <<"a", "x", "B">>, <<"x", " ", "A", "B">>}
\* Number of cards on the results page: few, or around the scan limit.
CardCounts == (0..FewCards) \cup ((ScanLimit - 1)..MaxCards)
\* The contents a card at position pos (from 1) may have.
HtmlsAt(pos, name) ==
    IF pos <= FewCards \/ pos >= ScanLimit - 1 THEN CardHtmls
    ELSE {h \in CardHtmls :
            ~\E off \in 0..(Len(h) - Len(name)) :
                \A k \in 1..Len(name) :
                    (IF h[off + k] \in {"A", "a"} THEN "a"
                     ELSE IF h[off + k] \in {"B", "b"} THEN "b"
                     ELSE h[off + k])
                  = (IF name[k] \in {"A", "a"} THEN "a"
                     ELSE IF name[k] \in {"B", "b"} THEN "b" ELSE name[k])}
\* text_content() of a price element.
PriceTexts == {<<"gbp", "9", ".", "5">>, <<"N", "/", "A">>}
Titles == {<<"t">>}
ListingIds == {NONE, <<>>, <<"7">>}
Hrefs == {<<"h">>}

\* No scrape() has been called.
ScrapeIdle ==
    /\ pc = "idle"
    /\ caller = "none"
    /\ storeName = NONE
    /\ playwright = FALSE /\ browser = FALSE /\ context = FALSE
    /\ cookiesFile = FALSE
    /\ launched = FALSE /\ released = FALSE /\ stopped = FALSE
    /\ saved = "no"
    /\ pageUrl = <<"blank">>
    /\ stages = <<>> /\ closeCalls = 0 /\ raised = FALSE
    /\ consentIdx = 0 /\ consentClicks = 0
    /\ priceSeen = NONE /\ priceFrom = NONE
    /\ searchBox = 0 /\ searchButton = 0
    /\ inputProbed = 0 /\ inputSeen = 0
    /\ buttonProbed = 0 /\ buttonSeen = 0
    /\ probeRaised = FALSE /\ filled = FALSE /\ submitVia = <<>>
    /\ searchRet = "unset" /\ searchCause = "unset"
    /\ sortRet = "unset"
    /\ linkIdx = 0 /\ title = NONE /\ productUrl = NONE /\ priceIdx = 0
    /\ result = Unset /\ extractRet = Unset
    /\ envCard = "unset" /\ envLink = "unset" /\ envPrice = "unset"
    /\ cardId = NONE /\ cardHref = NONE
    /\ scanN = 0 /\ i = 0 /\ curHtml = NONE
    /\ storeTitle = NONE /\ storeUrl = NONE
    /\ moreCards = FALSE /\ examined = 0 /\ matchesSeen = 0
    /\ storeFrom = 0 /\ storeHtml = NONE
    /\ backFailed = FALSE
    /\ scrapeRet = Unset
    /\ shown = "nothing"

\* clean_price is not being applied.
PriceIdle ==
    /\ pricePc = "idle"
    /\ priceText = NONE /\ cleaned = NONE /\ recleaned = NONE

\* The worker threads the GUI starts in the model.
MaxSearches == 2
Workers == 1..MaxSearches

\* EbayScraperGUI.__init__ and setup_ui: nothing started, nothing shown.
GuiIdle ==
    /\ isScraping = FALSE
    /\ buttonState = "normal"
    /\ progress = "stopped"
    /\ resultsArea = "welcome"
    /\ lastWarning = "none"
    /\ requests = 0 /\ started = 0
    /\ wpc = [w \in Workers |-> "unborn"]
    /\ workerGot = [w \in Workers |-> Unset]
    /\ scheduledBy = [w \in Workers |-> <<>>]
    /\ queue = <<>>

\* No EbayScraper is being configured.
RegionIdle ==
    /\ regionPc = "idle"
    /\ region = NONE /\ headless = FALSE
    /\ ebayUrl = "unset" /\ ctxLocale = "unset" /\ ctxGeo = Unset
    /\ cookiesFor = NONE /\ seeded = FALSE
    /\ lsPostcode = "unset" /\ lsCountry = NONE
    /\ locRet = "unset" /\ lookupRaised = FALSE

\* display_results is not being run on its own.
DisplayIdle ==
    /\ dispPc = "idle"
    /\ dispResult = Unset /\ dispView = "welcome"
    /\ verdict = "none"

\* No results URL is being rewritten.
RewriteIdle ==
    /\ rwPc = "idle"
    /\ rwUrl = Unset /\ rwTarget = Unset

Init ==
    /\ ScrapeIdle /\ PriceIdle /\ GuiIdle /\ RegionIdle
    /\ DisplayIdle /\ RewriteIdle

(***************************************************************************)
(* The callers: EbayScraperGUI.run_scraper, main(), or a direct call.      *)
(***************************************************************************)
\* store_entry.get().strip() or None
GuiStoreName(entry) == IF Strip(entry) = <<>> THEN NONE ELSE Strip(entry)

Invoke ==
    /\ pc = "idle"
    /\ \E c \in {"gui", "cli", "api"} :
         /\ caller' = c
         /\ \/ c = "gui" /\ \E e \in StoreEntries : storeName' = GuiStoreName(e)
            \/ c = "cli" /\ storeName' = NONE
            \/ c = "api" /\ \E n \in ApiStoreNames : storeName' = n
    /\ pc' = "start"
    /\ UNCHANGED <<sideVars, consentVars, priceEnv, cardEnv,
                   scraperVars, browserVars, pageUrl, stages, closeCalls,
                   raised, searchVars, sortRet, extractVars, extractEnv,
                   scanVars, scanEnv, scrapeRet, shown>>

(***************************************************************************)
(* EbayScraper.start: the driver, the browser, the context and the page    *)
(* are created in this order; a failing step raises out of start() and     *)
(* leaves the later fields unset.  scrape() has no except clause, so the   *)
(* exception goes to its finally block and then to the caller.             *)
(***************************************************************************)
StartSteps == <<"playwright", "launch", "context", "page", "done">>
StepIndex(step) == CHOOSE k \in DOMAIN StartSteps : StartSteps[k] = step

AfterStartMut(failAt) == "search_goto"

\* scrape(): `self.start()` is the first statement of the try block, which
\* has a finally clause and no except clause: when start() raises, the
\* rest of the block is skipped and close() runs.
AfterStart(failAt) == IF failAt = "done" THEN "search_goto" ELSE "close"

Start ==
    /\ pc = "start"
    /\ stages' = Append(stages, "start")
    /\ \E failAt \in {StartSteps[k] : k \in DOMAIN StartSteps} :
         LET reached(step) == StepIndex(step) < StepIndex(failAt)
         IN  /\ playwright' = reached("playwright")
             /\ browser' = reached("launch")
             /\ launched' = reached("launch")
             /\ context' = reached("context")
             /\ cookiesFile' = reached("page")
             /\ raised' = (failAt # "done")
             /\ pc' = AfterStart(failAt)
    /\ UNCHANGED <<sideVars, consentVars, priceEnv, cardEnv,
                   caller, storeName, released, stopped, saved, pageUrl,
                   closeCalls, searchVars, sortRet, extractVars, extractEnv, scanVars,
                   scanEnv, scrapeRet, shown>>

(***************************************************************************)
(* EbayScraper.search_product                                              *)
(***************************************************************************)
Probe == {"visible", "hidden", "raises"}
CallOutcome == {"ok", "timeout", "error"}

\* The selector loops: the first candidate whose is_visible() returned True;
\* a probe that raises is skipped by the bare `except: continue`.  0: none.
FirstVisible(probes) ==
    LET hit == {k \in DOMAIN probes : probes[k] = "visible"}
    IN  IF hit = {} THEN 0 ELSE CHOOSE k \in hit : \A j \in hit : k <= j

\* What search_product returns when it gives up before the results page:
\* `return False` after "Could not find search box", and the `return False`
\* of both except clauses of the method.
SearchAborts(cause) == "False"

AfterSearchMut(ret) == "sort"

\* scrape(): `if not self.search_product(search_term): return None`
AfterSearch(ret) == IF ret = "True" THEN "sort" ELSE "close"

\* What scrape() has returned once search_product returned `ret`: None, or
\* nothing yet.
ScrapeOnSearch(ret) == IF AfterSearch(ret) = "close" THEN NoResult ELSE Unset

\* search_product returns `ret`, its locals end, and scrape() goes on or
\* returns None.
SearchReturns(ret, cause) ==
    /\ searchRet' = ret
    /\ searchCause' = cause
    /\ searchBox' = 0
    /\ searchButton' = 0
    /\ pc' = AfterSearch(ret)
    /\ scrapeRet' = ScrapeOnSearch(ret)

\* page.goto(self.ebay_url); handle_cookie_consent is called next.
SearchGoto ==
    /\ pc = "search_goto"
    /\ stages' = Append(stages, "search")
    /\ \E g \in CallOutcome :
         IF g = "ok"
         THEN /\ pageUrl' = <<"home">>
              /\ pc' = "consent"
              /\ consentIdx' = 1
              /\ UNCHANGED <<searchBox, searchButton, searchRet, searchCause,
                             scrapeRet>>
         ELSE /\ pageUrl' = pageUrl
              /\ consentIdx' = consentIdx
              /\ SearchReturns(SearchAborts(g), g)
    /\ consentClicks' = consentClicks
    /\ UNCHANGED <<sideVars, priceEnv, cardEnv,
                   caller, storeName, scraperVars, browserVars, closeCalls,
                   raised, searchEnv, sortRet, extractVars, extractEnv,
                   scanVars, scanEnv, shown>>

ProbeFindsMut(probe) == probe # "hidden"

ConsentReturnsMut(click) == FALSE

\* handle_cookie_consent: `self.page.click(selector, timeout=2000)`, the
\* sleep and `return` share one `try`: the method returns after a click
\* that did not raise, and `except: continue` goes on to the next
\* candidate after one that did.
ConsentReturns(click) == click = "ok"

\* `if self.page.locator(selector).is_visible(...):` inside `try`, with
\* `except: continue`: only a probe that returns True chooses the candidate.
ProbeFinds(probe) == probe = "visible"

\* One pass of the loop over cookie_selectors: the candidate is probed and,
\* when visible, clicked.  After the method returns (from the loop or past
\* its end) search_product calls set_delivery_location, which catches every
\* exception of its own, and goes on to the search input.
HandleCookieConsent ==
    /\ pc = "consent"
    /\ \E probe \in Probe, click \in CallOutcome :
         /\ consentClicks' = IF ProbeFinds(probe) /\ click = "ok"
                             THEN consentClicks + 1 ELSE consentClicks
         /\ IF \/ ProbeFinds(probe) /\ ConsentReturns(click)
               \/ consentIdx = NumConsentSelectors
            THEN pc' = "search_input" /\ consentIdx' = 0
            ELSE pc' = "consent" /\ consentIdx' = consentIdx + 1
    /\ UNCHANGED <<sideVars, priceEnv, cardEnv,
                   caller, storeName, scraperVars, browserVars, pageUrl, stages,
                   closeCalls, raised, searchVars, sortRet, extractVars,
                   extractEnv, scanVars, scanEnv, scrapeRet, shown>>

\* One pass of the loop over search_selectors: the candidate is probed; a
\* visible one becomes search_box and ends the loop; after the last one
\* `if not search_box: return False`.
SearchInput ==
    /\ pc = "search_input"
    /\ inputProbed < NumSearchSelectors
    /\ \E probe \in Probe :
         /\ inputProbed' = inputProbed + 1
         /\ inputSeen' = IF inputSeen = 0 /\ probe = "visible"
                         THEN inputProbed + 1 ELSE inputSeen
         /\ probeRaised' = (probeRaised \/ probe = "raises")
         /\ IF ProbeFinds(probe)
            THEN /\ searchBox' = inputProbed + 1
                 /\ pc' = "search_fill"
                 /\ UNCHANGED <<searchButton, searchRet, searchCause,
                                scrapeRet>>
            ELSE IF inputProbed + 1 = NumSearchSelectors
            THEN SearchReturns(SearchAborts("nobox"), "nobox")
            ELSE UNCHANGED <<pc, searchBox, searchButton, searchRet,
                             searchCause, scrapeRet>>
    /\ UNCHANGED <<sideVars, consentVars, priceEnv, cardEnv,
                   caller, storeName, scraperVars, browserVars, pageUrl, stages,
                   closeCalls, raised, buttonProbed, buttonSeen, filled,
                   submitVia, sortRet, extractVars, extractEnv, scanVars,
                   scanEnv, shown>>

\* page.fill(search_box, search_term)
SearchFill ==
    /\ pc = "search_fill"
    /\ filled' = TRUE
    /\ \E fill \in CallOutcome :
         IF fill # "ok" THEN SearchReturns(SearchAborts(fill), fill)
         ELSE /\ pc' = "search_button"
              /\ UNCHANGED <<searchBox, searchButton, searchRet, searchCause,
                             scrapeRet>>
    /\ UNCHANGED <<sideVars, consentVars, priceEnv, cardEnv,
                   caller, storeName, scraperVars, browserVars, pageUrl, stages,
                   closeCalls, raised, inputProbed, inputSeen, buttonProbed,
                   buttonSeen, probeRaised, submitVia, sortRet, extractVars,
                   extractEnv, scanVars, scanEnv, shown>>

\* One pass of the loop over search_button_selectors: a visible candidate
\* becomes search_button and ends the loop; after the last one search_button
\* stays None.
SearchButton ==
    /\ pc = "search_button"
    /\ buttonProbed < NumButtonSelectors
    /\ \E probe \in Probe :
         /\ buttonProbed' = buttonProbed + 1
         /\ buttonSeen' = IF buttonSeen = 0 /\ probe = "visible"
                          THEN buttonProbed + 1 ELSE buttonSeen
         /\ probeRaised' = (probeRaised \/ probe = "raises")
         /\ IF ProbeFinds(probe)
            THEN searchButton' = buttonProbed + 1 /\ pc' = "search_submit"
            ELSE IF buttonProbed + 1 = NumButtonSelectors
            THEN searchButton' = 0 /\ pc' = "search_submit"
            ELSE UNCHANGED <<pc, searchButton>>
    /\ UNCHANGED <<sideVars, consentVars, priceEnv, cardEnv,
                   caller, storeName, scraperVars, browserVars, pageUrl, stages,
                   closeCalls, raised, searchBox, searchRet, searchCause,
                   inputProbed, inputSeen, filled, submitVia, sortRet,
                   extractVars, extractEnv, scanVars, scanEnv, scrapeRet, shown>>

SubmitActionsMut(button, box) ==
    <<[act |-> "click", on |-> button], [act |-> "press", on |-> box]>>

\* `if search_button: self.page.click(search_button)`,
\* `else: self.page.press(search_box, 'Enter')`: the calls made, each on
\* the candidate it names.
SubmitActions(button, box) ==
    IF button # 0 THEN <<[act |-> "click", on |-> button]>>
    ELSE <<[act |-> "press", on |-> box]>>

\* The submit call, which either raises into the method's except clauses
\* or returns; then wait_for_load_state, whose timeout is swallowed.
SearchSubmit ==
    /\ pc = "search_submit"
    /\ submitVia' = submitVia \o SubmitActions(searchButton, searchBox)
    /\ \E act \in CallOutcome :
         IF act # "ok"
         THEN pageUrl' = pageUrl /\ SearchReturns(SearchAborts(act), act)
         ELSE /\ pageUrl' = <<"results">>
              /\ pc' = "search_results"
              /\ UNCHANGED <<searchBox, searchButton, searchRet, searchCause,
                             scrapeRet>>
    /\ UNCHANGED <<sideVars, consentVars, priceEnv, cardEnv,
                   caller, storeName, scraperVars, browserVars, stages,
                   closeCalls, raised, inputProbed, inputSeen, buttonProbed,
                   buttonSeen, probeRaised, filled, sortRet, extractVars,
                   extractEnv, scanVars, scanEnv, shown>>

\* What the results page showed: a visible no-results sentinel, no card
\* within the bounded wait, a failing wait or count, zero cards, or cards.
ResultsShown(sentinels, wait, count) ==
    IF \E k \in DOMAIN sentinels : sentinels[k] = "visible" THEN "sentinel"
    ELSE IF wait = "timeout" THEN "nocards_in_time"
    ELSE IF wait = "error" THEN "wait_failed"
    ELSE IF count = "raises" THEN "count_failed"
    ELSE IF count = "zero" THEN "zero"
    ELSE "cards"

\* Lines 267-296: the sentinel loop returns False; wait_for_selector and
\* count() sit in a try whose `except Exception` prints "but continuing";
\* a zero count returns False; otherwise True.
SearchVerdictMut(sentinels, wait, count) ==
    IF FirstVisible(sentinels) # 0 THEN "False"
    ELSE IF wait # "ok" \/ count = "raises" THEN "False"
    ELSE IF count = "zero" THEN "False"
    ELSE "True"

SearchVerdict(sentinels, wait, count) ==
    IF FirstVisible(sentinels) # 0 THEN "False"
    ELSE IF wait # "ok" \/ count = "raises" THEN "True"
    ELSE IF count = "zero" THEN "False"
    ELSE "True"

SearchResults ==
    /\ pc = "search_results"
    /\ \E sentinels \in [1..NumSentinelSelectors -> Probe],
          wait \in CallOutcome, count \in {"zero", "some", "raises"} :
         SearchReturns(SearchVerdict(sentinels, wait, count),
                       ResultsShown(sentinels, wait, count))
    /\ inputProbed' = 0 /\ inputSeen' = 0
    /\ buttonProbed' = 0 /\ buttonSeen' = 0
    /\ probeRaised' = FALSE /\ filled' = FALSE /\ submitVia' = <<>>
    /\ consentClicks' = 0 /\ consentIdx' = consentIdx
    /\ UNCHANGED <<sideVars, priceEnv, cardEnv,
                   caller, storeName, scraperVars, browserVars, pageUrl, stages,
                   closeCalls, raised, sortRet, extractVars, extractEnv,
                   scanVars, scanEnv, shown>>

(***************************************************************************)
(* EbayScraper.sort_by_lowest_price                                        *)
(***************************************************************************)
\* Every exception of the method is caught and turned into False.
SortVerdict(outcome) == IF outcome = "ok" THEN "True" ELSE "False"

AfterSortMut(ret) == IF ret = "True" THEN "ex_item" ELSE "close"

\* scrape(): a failed sort is printed, and extraction follows either way.
AfterSort(ret) == "ex_item"

SortByLowestPrice ==
    /\ pc = "sort"
    /\ stages' = Append(stages, "sort")
    /\ \E outcome \in {"ok", "url_error", "goto_timeout", "goto_error",
                        "wait_timeout"} :
         /\ sortRet' = SortVerdict(outcome)
         /\ searchCause' = "unset"
         /\ pc' = AfterSort(SortVerdict(outcome))
         /\ scrapeRet' = IF AfterSort(SortVerdict(outcome)) = "close"
                          THEN NoResult ELSE scrapeRet
    /\ UNCHANGED <<sideVars, consentVars, priceEnv, cardEnv,
                   caller, storeName, scraperVars, browserVars, pageUrl,
                   closeCalls, raised, searchBox, searchButton, searchEnv,
                   searchRet,
                   extractVars, extractEnv, scanVars, scanEnv, shown>>

(***************************************************************************)
(* EbayScraper.extract_lowest_price: the lowest listing                    *)
(***************************************************************************)
LinkProbe == {"found", "absent", "raises"}
\* A price candidate: not visible, a raising probe, or visible with a text.
PriceProbe ==
    {[vis |-> "hidden"], [vis |-> "raises"]}
        \cup {[vis |-> "visible", text |-> t] : t \in PriceTexts}
TitleFallback == <<"Product Title">>
StoreTitleFallback == <<"Store Product">>
\* The title read from the card, or a failure of reading it.
TitleReads == Titles \cup {<<"raises">>}
\* get_attribute('data-listingid'): a value, None, or an exception.
IdReads == ListingIds \cup {<<"raises">>}
HrefReads == Hrefs \cup {NONE}

\* f"{self.ebay_url}/itm/{listing_id}"
ItmUrl(id) == <<"base", "/itm/">> \o id

\* Where a navigation ends when the site answers with a redirect.
Redirected == <<"redirect">>

ListingUrlMut(target, page_url) == target

\* `product_url = self.page.url` and `'url': self.page.url`: the url of a
\* listing is read from the page after the navigation to `target`.
ListingUrl(target, page_url) == page_url

\* The link loops: the first candidate whose count() is positive; a raising
\* candidate is skipped.  0: none (clickable_link stays None).
FirstFound(probes) ==
    LET hit == {k \in DOMAIN probes : probes[k] = "found"}
    IN  IF hit = {} THEN 0 ELSE CHOOSE k \in hit : \A j \in hit : k <= j

\* One pass of a price loop: is_visible, text_content, clean_price.  A
\* hidden candidate leaves the price as it is (None here, as no accepted
\* price precedes it); a raising one is skipped by `except: continue`.
PriceAcceptedMut(price) == FALSE

PriceOf(probe) ==
    IF probe.vis = "visible" THEN clean_price(probe.text) ELSE NONE

\* `if product_price: break` / `if store_price: break`
PriceAccepted(price) == Truthy(price)

\* The loop ends at `break` or after the last candidate.
LoopEnds(price, last) == PriceAccepted(price) \/ last

\* The first visible candidate's text while the loop goes on; nothing once
\* it has ended.
SeenAfter(probe, price, last) ==
    IF LoopEnds(price, last) THEN NONE
    ELSE IF priceSeen = NONE /\ probe.vis = "visible" THEN probe.text
    ELSE priceSeen

\* The candidate shows a text that clean_price turns into a price.
ShowsValidPrice(probe) ==
    probe.vis = "visible" /\ clean_price(probe.text) # NONE

\* `if first_item.count() == 0: return None`
CardMissing(count) == count = "zero"
\* `if not clickable_link: return None`
LinkMissing(link) == link = 0
PriceMissingMut(price) == FALSE

\* `if not product_price: return None`
PriceMissing(price) == ~Truthy(price)

WantsStoreMut(name) == name # NONE

\* `if store_name:`
WantsStore(name) == Truthy(name)

\* extract_lowest_price returns `res`, its locals end, and scrape() returns
\* the same value after its sleep.
ExtractReturns(res) ==
    /\ extractRet' = res
    /\ scrapeRet' = res
    /\ pc' = "close"
    /\ linkIdx' = 0 /\ title' = NONE /\ productUrl' = NONE /\ priceIdx' = 0
    /\ result' = Unset
    /\ scanN' = 0 /\ i' = 0 /\ curHtml' = NONE
    /\ storeTitle' = NONE /\ storeUrl' = NONE

\* Locate the first result item (iid:1).
ExtractItem ==
    /\ pc = "ex_item"
    /\ stages' = Append(stages, "extract")
    /\ \E count \in {"zero", "some", "raises"} :
         /\ envCard' = CASE count = "zero" -> "absent"
                          [] count = "some" -> "present"
                          [] OTHER -> "unknown"
         /\ IF count = "raises" \/ CardMissing(count)
            THEN ExtractReturns(NoResult)
            ELSE /\ pc' = "ex_link"
                 /\ UNCHANGED <<extractVars, scanVars, scrapeRet>>
    /\ UNCHANGED <<sideVars, consentVars, priceEnv, cardEnv,
                   caller, storeName, scraperVars, browserVars, pageUrl,
                   closeCalls, raised, searchVars, sortRet, envLink, envPrice,
                   scanEnv, shown>>

\* Resolve the link inside the card, read the title and the listing id, and
\* build the product URL.
ExtractLink ==
    /\ pc = "ex_link"
    /\ \E probes \in [1..NumLinkSelectors -> LinkProbe], t \in TitleReads,
          id \in IdReads, href \in HrefReads :
         /\ envLink' = IF \E k \in DOMAIN probes : probes[k] = "found"
                        THEN "resolvable" ELSE "none"
         /\ IF LinkMissing(FirstFound(probes)) \/ id = <<"raises">>
            THEN ExtractReturns(NoResult) /\ UNCHANGED cardEnv
            ELSE /\ linkIdx' = FirstFound(probes)
                 /\ cardId' = id /\ cardHref' = href
                 /\ title' = IF t = <<"raises">> THEN TitleFallback ELSE t
                 /\ productUrl' = IF Truthy(id) THEN ItmUrl(id) ELSE href
                 /\ pc' = "ex_nav"
                 /\ UNCHANGED <<priceIdx, result, extractRet, scanVars,
                                scrapeRet>>
    /\ UNCHANGED <<sideVars, consentVars, priceEnv,
                   caller, storeName, scraperVars, browserVars, pageUrl, stages,
                   closeCalls, raised, searchVars, sortRet, envCard, envPrice,
                   scanEnv, shown>>

\* page.goto(product_url); the load-state wait's timeout is swallowed.
ExtractNav ==
    /\ pc = "ex_nav"
    /\ cardId' = NONE /\ cardHref' = NONE
    /\ \E g \in CallOutcome, landed \in {"same", "redirect"} :
         IF productUrl = NONE \/ g # "ok"
         THEN pageUrl' = pageUrl /\ ExtractReturns(NoResult)
         ELSE /\ pageUrl' = IF landed = "same" THEN productUrl
                             ELSE Redirected
              /\ pc' = "ex_price"
              /\ UNCHANGED <<extractVars, scanVars, scrapeRet>>
    /\ UNCHANGED <<sideVars, consentVars, priceEnv,
                   caller, storeName, scraperVars, browserVars, stages,
                   closeCalls, raised, searchVars, sortRet, extractEnv, scanEnv,
                   shown>>

\* One candidate of price_selectors on the detail page.  An accepted price
\* ends the loop; after the last candidate, or an accepted one, a missing
\* price returns None, and a price builds result['lowest'].
ExtractPrice ==
    /\ pc = "ex_price"
    /\ \E probe \in PriceProbe :
         LET price == PriceOf(probe)
             last == priceIdx + 1 >= NumPriceSelectors
             res == [lowest |-> [title |-> title, price |-> price,
                                 url |-> ListingUrl(productUrl, pageUrl)]]
         IN  /\ envPrice' = IF ShowsValidPrice(probe) THEN "valid"
                            ELSE IF last THEN "none" ELSE envPrice
             /\ priceSeen' = SeenAfter(probe, price, last)
             /\ priceFrom' = IF LoopEnds(price, last) /\ ShowsValidPrice(probe)
                             THEN probe.text ELSE NONE
             /\ IF ~PriceAccepted(price) /\ ~last
                THEN /\ priceIdx' = priceIdx + 1
                     /\ UNCHANGED <<pc, linkIdx, title, productUrl, result,
                                    extractRet, scanVars, scrapeRet>>
                ELSE IF PriceMissing(price) THEN ExtractReturns(NoResult)
                ELSE IF WantsStore(storeName)
                THEN /\ result' = res
                     /\ productUrl' = ListingUrl(productUrl, pageUrl)
                     /\ linkIdx' = 0           \* clickable_link: not read again
                     /\ priceIdx' = 0
                     /\ pc' = "st_back"
                     /\ UNCHANGED <<title, extractRet, scanVars, scrapeRet>>
                ELSE ExtractReturns(res)
    /\ UNCHANGED <<sideVars, consentVars, cardEnv,
                   caller, storeName, scraperVars, browserVars, pageUrl, stages,
                   closeCalls, raised, searchVars, sortRet, envCard, envLink,
                   scanEnv, shown>>

(***************************************************************************)
(* EbayScraper.extract_lowest_price: the store matcher (lines 493-589)     *)
(***************************************************************************)
ScanRangeMut(n) == n

\* range(min(all_items.count(), 50))
ScanRange(n) == Min(n, ScanLimit)

\* `store_name.lower() in item_html.lower()`
StoreMatches(name, html) == PyIn(Lower(name), Lower(html))

\* The card's content contains the name, letter case ignored.
ContainsIgnoringCase(html, name) ==
    \E off \in 0..(Len(html) - Len(name)) :
        \A k \in 1..Len(name) : LowerChar(html[off + k]) = LowerChar(name[k])

\* What the loop does with a matching card once it is done with it:
\* `break` stands inside `if store_link and store_link.count() > 0:`, so a
\* matching card without a link falls through to the next iteration, and
\* an exception in the body reaches `except Exception: ... continue`.
AfterMatchedCard(outcome) ==
    IF outcome \in {"no_link", "exception"} THEN "continue" ELSE "break"

\* The next iteration of the for loop after card index k, or its end, after
\* which the method returns result.
ScanContinues(k) ==
    IF k + 1 < scanN
    THEN /\ i' = k + 1
         /\ pc' = "st_scan"
         /\ curHtml' = NONE /\ storeTitle' = NONE /\ storeUrl' = NONE
         /\ UNCHANGED <<extractVars, scanN, scrapeRet>>
    ELSE ExtractReturns(result)

\* The matched card is done with `outcome`: the loop goes on or breaks.
MatchedCardDone(outcome) ==
    IF AfterMatchedCard(outcome) = "continue" THEN ScanContinues(i)
    ELSE ExtractReturns(result)

\* go_back(), wait_for_load_state('networkidle'), all_items.count(): none of
\* them is inside the loop's try, so a timeout or an error in them reaches
\* the method's outer except clauses, which return None.
StoreBack ==
    /\ pc = "st_back"
    /\ stages' = Append(stages, "match")
    /\ priceFrom' = NONE /\ priceSeen' = priceSeen
    /\ \E back \in CallOutcome, n \in CardCounts, count \in {"ok", "raises"} :
         IF back # "ok" \/ count = "raises"
         THEN /\ backFailed' = TRUE
              /\ pageUrl' = pageUrl
              /\ ExtractReturns(NoResult)
              /\ UNCHANGED <<moreCards>>
         ELSE /\ backFailed' = FALSE
              /\ pageUrl' = <<"results">>
              /\ moreCards' = (n > ScanLimit)
              /\ IF ScanRange(n) = 0 THEN ExtractReturns(result)
                 ELSE /\ scanN' = ScanRange(n)
                      /\ i' = 0
                      /\ pc' = "st_scan"
                      /\ UNCHANGED <<extractVars, curHtml, storeTitle,
                                     storeUrl, scrapeRet>>
    /\ UNCHANGED <<sideVars, consentVars, cardEnv,
                   caller, storeName, scraperVars, browserVars, closeCalls,
                   raised, searchVars, sortRet, extractEnv, examined,
                   matchesSeen, storeFrom, storeHtml, shown>>

\* One iteration up to the substring test: item.inner_html() and the test.
ScanItem ==
    /\ pc = "st_scan"
    /\ i < scanN
    /\ examined' = i + 1
    /\ \E html \in HtmlsAt(i + 1, storeName) \cup {NONE} :
         IF html = NONE
         THEN ScanContinues(i) /\ UNCHANGED matchesSeen
         ELSE /\ matchesSeen' = IF ContainsIgnoringCase(html, storeName)
                                 THEN Min(matchesSeen + 1, MatchCap)
                                 ELSE matchesSeen
              /\ IF StoreMatches(storeName, html)
                 THEN /\ curHtml' = html
                      /\ pc' = "st_link"
                      /\ UNCHANGED <<extractVars, scanN, i, storeTitle,
                                     storeUrl, scrapeRet>>
                 ELSE ScanContinues(i)
    /\ UNCHANGED <<sideVars, consentVars, priceEnv, cardEnv,
                   caller, storeName, scraperVars, browserVars, pageUrl, stages,
                   closeCalls, raised, searchVars, sortRet, extractEnv,
                   moreCards, storeFrom, storeHtml, backFailed, shown>>

\* The matching card: resolve its link, read title and listing id, build
\* the store URL.
ScanLink ==
    /\ pc = "st_link"
    /\ \E probes \in [1..NumLinkSelectors -> LinkProbe],
          recount \in {"some", "zero", "raises"}, t \in TitleReads,
          id \in IdReads, href \in HrefReads :
         IF FirstFound(probes) = 0 \/ recount = "zero"
         THEN MatchedCardDone("no_link") /\ UNCHANGED cardEnv
         ELSE IF recount = "raises" \/ id = <<"raises">>
         THEN MatchedCardDone("exception") /\ UNCHANGED cardEnv
         ELSE /\ storeTitle' = IF t = <<"raises">> THEN StoreTitleFallback
                                ELSE t
              /\ storeUrl' = IF Truthy(id) THEN ItmUrl(id) ELSE href
              /\ cardId' = id /\ cardHref' = href
              /\ pc' = "st_nav"
              /\ UNCHANGED <<extractVars, scanN, i, curHtml, scrapeRet>>
    /\ UNCHANGED <<sideVars, consentVars, priceEnv,
                   caller, storeName, scraperVars, browserVars, pageUrl, stages,
                   closeCalls, raised, searchVars, sortRet, extractEnv, scanEnv,
                   shown>>

\* page.goto(store_url); the load-state wait's timeout is swallowed.
ScanNav ==
    /\ pc = "st_nav"
    /\ cardId' = NONE /\ cardHref' = NONE
    /\ \E g \in CallOutcome, landed \in {"same", "redirect"} :
         IF storeUrl = NONE \/ g # "ok"
         THEN pageUrl' = pageUrl /\ MatchedCardDone("exception")
         ELSE /\ pageUrl' = IF landed = "same" THEN storeUrl
                             ELSE Redirected
              /\ pc' = "st_price"
              /\ UNCHANGED <<extractVars, scanVars, scrapeRet>>
    /\ UNCHANGED <<sideVars, consentVars, priceEnv,
                   caller, storeName, scraperVars, browserVars, stages,
                   closeCalls, raised, searchVars, sortRet, extractEnv, scanEnv,
                   shown>>

WithStoreMut(res, listing) == [lowest |-> listing, your_store |-> listing]

\* `result['your_store'] = {...}`: one key is added to the dict that holds
\* 'lowest'.
WithStore(res, listing) == [lowest |-> res.lowest, your_store |-> listing]

\* One candidate of price_selectors on the store listing's page.  With an
\* accepted price result['your_store'] is set; after the loop, with or
\* without a price, the scan breaks.
ScanPrice ==
    /\ pc = "st_price"
    /\ \E probe \in PriceProbe :
         LET price == PriceOf(probe)
             last == priceIdx + 1 >= NumPriceSelectors
             found == WithStore(result,
                                [title |-> storeTitle, price |-> price,
                                 url |-> ListingUrl(storeUrl, pageUrl)])
         IN  /\ priceSeen' = SeenAfter(probe, price, last)
             /\ priceFrom' = IF LoopEnds(price, last) /\ ShowsValidPrice(probe)
                             THEN probe.text ELSE NONE
             /\ IF ~PriceAccepted(price) /\ ~last
                THEN /\ priceIdx' = priceIdx + 1
                     /\ UNCHANGED <<pc, linkIdx, title, productUrl, result,
                                    extractRet, scanVars, scrapeRet, storeFrom,
                                    storeHtml>>
                ELSE IF Truthy(price)
                THEN /\ storeFrom' = i + 1
                     /\ storeHtml' = curHtml
                     /\ ExtractReturns(found)
                ELSE /\ UNCHANGED <<storeFrom, storeHtml>>
                     /\ MatchedCardDone("no_price")
    /\ UNCHANGED <<sideVars, consentVars, cardEnv,
                   caller, storeName, scraperVars, browserVars, pageUrl, stages,
                   closeCalls, raised, searchVars, sortRet, extractEnv,
                   moreCards, examined, matchesSeen, backFailed, shown>>

(***************************************************************************)
(* EbayScraper.close, called from scrape()'s finally block.                *)
(***************************************************************************)
\* `if self.context and hasattr(self, 'cookies_file'):`
SavesCookies == context /\ cookiesFile
ClosesBrowserMut == context

\* `if self.browser:`
ClosesBrowser == browser
\* `if self.playwright:`
StopsDriver == playwright

OnSaveFailureMut == "raise"

\* `except Exception as e: print(...)` around context.storage_state()
OnSaveFailure == "swallow"

\* A failing storage_state() is caught and printed; browser.close() and
\* playwright.stop() then run as their guards say.
Close ==
    /\ pc = "close"
    /\ priceFrom' = NONE /\ priceSeen' = priceSeen
    /\ closeCalls' = closeCalls + 1
    /\ stages' = Append(stages, "close")
    /\ \E save \in {"ok", "fails"} :
         /\ saved' = IF ~SavesCookies THEN "no"
                     ELSE IF save = "ok" THEN "yes" ELSE "failed"
         /\ IF SavesCookies /\ save = "fails" /\ OnSaveFailure = "raise"
            THEN /\ raised' = TRUE
                 /\ UNCHANGED <<released, stopped>>
            ELSE /\ released' = (released \/ (ClosesBrowser /\ launched))
                 /\ stopped' = (stopped \/ StopsDriver)
                 /\ UNCHANGED raised
    /\ pc' = "returned"
    /\ UNCHANGED <<sideVars, consentVars, cardEnv,
                   caller, storeName, scraperVars, launched, pageUrl,
                   searchVars, sortRet, extractVars, extractEnv, scanVars,
                   scanEnv, scrapeRet, shown>>

(***************************************************************************)
(* EbayScraperGUI.run_scraper after scrape(): display_results or           *)
(* display_error is scheduled on the foreground thread and runs.           *)
(***************************************************************************)
\* `if result and 'lowest' in result:` chooses the results view; anything
\* else gets the one "SEARCH FAILED" text.
DisplayKind(res) ==
    IF res # NoResult /\ "lowest" \in DOMAIN res THEN "results"
    ELSE "search_failed"

Display ==
    /\ pc = "returned"
    /\ caller = "gui"
    /\ shown' = IF raised THEN "error" ELSE DisplayKind(scrapeRet)
    /\ pc' = "shown"
    /\ UNCHANGED <<sideVars, consentVars, priceEnv, cardEnv,
                   caller, storeName, scraperVars, browserVars, pageUrl, stages,
                   closeCalls, raised, searchVars, sortRet, extractVars,
                   extractEnv, scanVars, scanEnv, scrapeRet>>

\* main() after scrape(): an exception goes to `except Exception`; None to
\* the else branch and sys.exit(1); any other result to the three prints of
\* result['title'], result['price'] and result['url'], whose KeyError is
\* an exception like any other.
MainReport(raisedInScrape, res) ==
    IF raisedInScrape THEN "unexpected_error"
    ELSE IF res = NoResult THEN "not_found"
    ELSE IF {"title", "price", "url"} \subseteq DOMAIN res THEN "success"
    ELSE "unexpected_error"

Main ==
    /\ pc = "returned"
    /\ caller = "cli"
    /\ shown' = MainReport(raised, scrapeRet)
    /\ pc' = "exited"
    /\ UNCHANGED <<sideVars, consentVars, priceEnv, cardEnv,
                   caller, storeName, scraperVars, browserVars, pageUrl, stages,
                   closeCalls, raised, searchVars, sortRet, extractVars,
                   extractEnv, scanVars, scanEnv, scrapeRet>>

Next ==
    \/ Invoke
    \/ Start
    \/ SearchGoto
    \/ HandleCookieConsent
    \/ SearchInput
    \/ SearchFill
    \/ SearchButton
    \/ SearchSubmit
    \/ SearchResults
    \/ SortByLowestPrice
    \/ ExtractItem
    \/ ExtractLink
    \/ ExtractNav
    \/ ExtractPrice
    \/ StoreBack
    \/ ScanItem
    \/ ScanLink
    \/ ScanNav
    \/ ScanPrice
    \/ Close
    \/ Display
    \/ Main

Spec == Init /\ [][Next]_vars

\* scrape() runs on one thread as straight-line code: as long as each
\* browser operation returns or times out, the step it is at is taken.
\* The fairness of the call itself only leaves out the behaviours in which
\* scrape() is never called.
SpecLive == Spec /\ WF_vars(Next)

(***************************************************************************)
(* clean_price on its own: a text is chosen, clean_price is applied to it, *)
(* and then to its own result.                                             *)
(***************************************************************************)
\* The longest text given to clean_price.
MaxPriceLen == 5
\* A currency sign the pattern knows, one more of them, whitespace, a digit,
\* the two punctuation marks of the pattern, and any other character.
PriceAlphabet == {"$", "gbp", " ", "1", ",", ".", "x"}
\* text_content() of an element: a text, or None.
PriceInputs ==
    UNION {[1..n -> PriceAlphabet] : n \in 0..MaxPriceLen} \cup {NONE}

PriceInit ==
    /\ ScrapeIdle /\ GuiIdle /\ RegionIdle /\ DisplayIdle /\ RewriteIdle
    /\ pricePc = "input"
    /\ priceText \in PriceInputs
    /\ cleaned = NONE /\ recleaned = NONE

CleanPrice ==
    /\ pricePc = "input"
    /\ cleaned' = clean_price(priceText)
    /\ pricePc' = "cleaned"
    /\ UNCHANGED <<scrapeVars, guiVars, regionVars, displayVars,
                   rewriteVars, priceText, recleaned>>

\* The result, when it is a price, is given to clean_price again.
CleanAgain ==
    /\ pricePc = "cleaned"
    /\ cleaned # NONE
    /\ recleaned' = clean_price(cleaned)
    /\ pricePc' = "recleaned"
    /\ UNCHANGED <<scrapeVars, guiVars, regionVars, displayVars,
                   rewriteVars, priceText, cleaned>>

PriceNext == CleanPrice \/ CleanAgain

SpecPrice == PriceInit /\ [][PriceNext]_vars

(***************************************************************************)
(* EbayScraperGUI: start_search on the foreground thread, run_scraper on a *)
(* worker thread, display_results and display_error run by the foreground  *)
(* thread from the root.after queue.  scrape() is one step of the worker:  *)
(* it returns a result, returns None, or raises.                           *)
(***************************************************************************)
\* start_search calls in the model.
MaxRequests == 3

Placeholder == <<"placeholder">>
\* What search_entry holds when start_search is called.
SearchTerms == {<<>>, <<" ">>, Placeholder, <<" ", "x">>}

\* A result as scrape() returns it when it found a listing.
SomeResult ==
    [lowest |-> [title |-> <<"t">>, price |-> <<"$", "1">>, url |-> <<"h">>]]
Raises == [raises |-> TRUE]
\* What scrape() (with the constructor and the reads before it) does.
ScrapeOutcomes == {SomeResult, NoResult, Raises}

\* `if search_term == "Enter product name ..." or not search_term:`
NoInput(entry) == Strip(entry) = Placeholder \/ Strip(entry) = <<>>

BusyMut(flag) == FALSE

\* `if self.is_scraping:`
Busy(flag) == flag

StartSearch ==
    /\ requests < MaxRequests
    /\ requests' = requests + 1
    /\ \E entry \in SearchTerms :
         IF NoInput(entry)
         THEN /\ lastWarning' = "No Input"
              /\ UNCHANGED <<isScraping, buttonState, progress, resultsArea,
                             started, wpc>>
         ELSE IF Busy(isScraping)
         THEN /\ lastWarning' = "Busy"
              /\ UNCHANGED <<isScraping, buttonState, progress, resultsArea,
                             started, wpc>>
         ELSE /\ started < MaxSearches
              /\ resultsArea' = "empty"
              /\ buttonState' = "disabled"
              /\ isScraping' = TRUE
              /\ progress' = "running"
              /\ started' = started + 1
              /\ wpc' = [wpc EXCEPT ![started + 1] = "scraping"]
              /\ UNCHANGED lastWarning
    /\ UNCHANGED <<scrapeVars, priceVars, regionVars, displayVars,
                   rewriteVars,
                   workerGot, scheduledBy, queue>>

\* run_scraper's try block up to the return of scrape().
WorkerScrape(w) ==
    /\ wpc[w] = "scraping"
    /\ \E o \in ScrapeOutcomes : workerGot' = [workerGot EXCEPT ![w] = o]
    /\ wpc' = [wpc EXCEPT ![w] = "scraped"]
    /\ UNCHANGED <<scrapeVars, priceVars, regionVars, displayVars,
                   rewriteVars,
                   isScraping, buttonState, progress,
                   resultsArea, lastWarning, requests, started, scheduledBy,
                   queue>>

ScheduledMut(o) ==
    IF o = Raises THEN <<"display_error">>
    ELSE IF o = NoResult THEN <<>>
    ELSE <<"display_results">>

\* The root.after calls run_scraper makes: display_results after the try
\* block's scrape() returned, display_error in `except Exception`.
Scheduled(o) ==
    IF o = Raises THEN <<"display_error">> ELSE <<"display_results">>

WorkerSchedule(w) ==
    /\ wpc[w] = "scraped"
    /\ scheduledBy' = [scheduledBy EXCEPT ![w] = Scheduled(workerGot[w])]
    /\ queue' = queue \o [k \in DOMAIN Scheduled(workerGot[w]) |->
                            [run |-> Scheduled(workerGot[w])[k],
                             arg |-> workerGot[w]]]
    /\ wpc' = [wpc EXCEPT ![w] = "done"]
    /\ UNCHANGED <<scrapeVars, priceVars, regionVars, displayVars,
                   rewriteVars,
                   isScraping, buttonState, progress,
                   resultsArea, lastWarning, requests, started, workerGot>>

\* The foreground thread runs the next callback: display_results or
\* display_error.
RunCallback ==
    /\ queue # <<>>
    /\ progress' = "stopped"
    /\ buttonState' = "normal"
    /\ isScraping' = FALSE
    /\ resultsArea' = IF Head(queue).run = "display_error" THEN "error"
                       ELSE DisplayKind(Head(queue).arg)
    /\ queue' = Tail(queue)
    /\ UNCHANGED <<scrapeVars, priceVars, regionVars, displayVars,
                   rewriteVars,
                   lastWarning, requests, started, wpc,
                   workerGot, scheduledBy>>

GuiNext ==
    \/ StartSearch
    \/ \E w \in Workers : WorkerScrape(w)
    \/ \E w \in Workers : WorkerSchedule(w)
    \/ RunCallback

SpecGui == Init /\ [][GuiNext]_vars

\* A worker thread runs: scrape() comes back (it terminates when the
\* browser's operations do) and root.after is called; and the foreground
\* loop runs the callbacks it was handed.  Nothing makes the user search.
SpecGuiLive ==
    /\ SpecGui
    /\ WF_vars(\E w \in Workers : WorkerScrape(w))
    /\ WF_vars(\E w \in Workers : WorkerSchedule(w))
    /\ WF_vars(RunCallback)

(***************************************************************************)
(* EbayScraperGUI.display_results on its own, given a result of scrape():  *)
(* the view it renders and the price comparison of lines 303-317.          *)
(***************************************************************************)
\* str.replace(old, ''), for every character of `olds` in turn.
RECURSIVE Remove(_, _)
Remove(s, olds) ==
    IF s = <<>> THEN <<>>
    ELSE IF Head(s) \in olds THEN Remove(Tail(s), olds)
    ELSE <<Head(s)>> \o Remove(Tail(s), olds)

DigitVal(c) ==
    LET chars == <<"0", "1", "2", "3", "4", "5", "6", "7", "8", "9">>
    IN  (CHOOSE k \in 1..10 : chars[k] = c) - 1

\* The number a run of digits writes.
RECURSIVE NatOf(_)
NatOf(ds) ==
    IF ds = <<>> THEN 0
    ELSE NatOf(SubSeq(ds, 1, Len(ds) - 1)) * 10 + DigitVal(ds[Len(ds)])

RECURSIVE Pow10(_)
Pow10(n) == IF n = 0 THEN 1 ELSE 10 * Pow10(n - 1)

\* float(text) of a text of digits, "." and anything else: digits with at
\* most one "." and at least one digit ("7." and ".5" are numbers); every
\* other text is a ValueError.  The value is num / 10^scale.
ValueError == [ok |-> FALSE]
float(text) ==
    LET t == Strip(text)
        dots == {k \in 1..Len(t) : t[k] = "."}
        dot == IF dots = {} THEN Len(t) + 1 ELSE CHOOSE k \in dots : TRUE
        whole == SubSeq(t, 1, dot - 1)
        frac == SubSeq(t, dot + 1, Len(t))
    IN  IF \/ \E k \in 1..Len(t) : t[k] \notin Digits \cup {"."}
           \/ Cardinality(dots) > 1
           \/ Len(whole) + Len(frac) = 0
        THEN ValueError
        ELSE [ok |-> TRUE, num |-> NatOf(whole \o frac), scale |-> Len(frac)]

\* The signs display_results takes off a price before float().
StrippedSigns == {"gbp", "$"}

\* `float(price.replace(gbp, '').replace('$', '').replace(',', '').strip())`
PriceVal(price) == float(Strip(Remove(price, StrippedSigns \cup {","})))

\* The sign of your - lowest, of two numbers.
Sign(your, lowest) ==
    LET y == your.num * Pow10(lowest.scale)
        l == lowest.num * Pow10(your.scale)
    IN  IF y > l THEN "more" ELSE IF y < l THEN "cheaper" ELSE "matches"

\* The try block: both float() calls, then one of three lines; the bare
\* `except: pass` prints nothing.
PriceDifference(lowest, your_store) ==
    IF PriceVal(lowest.price) = ValueError \/ PriceVal(your_store.price) = ValueError
    THEN "skipped"
    ELSE Sign(PriceVal(your_store.price), PriceVal(lowest.price))

\* The branches of display_results.
DisplayView(res) ==
    IF DisplayKind(res) # "results" THEN "search_failed"
    ELSE IF "your_store" \in DOMAIN res THEN "results_with_store"
    ELSE "results"

\* Price texts of detail pages, and what extract_lowest_price stores for
\* them: the outputs of clean_price.
ShownTexts ==
    { <<"gbp", "9", ".", "5">>, <<"gbp", "1", ",", "0", "0", "0">>,
      <<"1", "0">>, <<"$", " ", "7", ".">>, <<",">>,
      <<"eur", "9", ".", "5">>, <<"eur", "1", "0">>, <<"yen", "1", "0">> }
ShownPrices == {clean_price(t) : t \in ShownTexts} \ {NONE}

Listing(price) == [title |-> <<"t">>, price |-> price, url |-> <<"h">>]

DisplayInputs ==
    {NoResult}
    \cup {[lowest |-> Listing(l)] : l \in ShownPrices}
    \cup {[lowest |-> Listing(l), your_store |-> Listing(y)] :
              l \in ShownPrices, y \in ShownPrices}

DisplayInit ==
    /\ ScrapeIdle /\ PriceIdle /\ GuiIdle /\ RegionIdle /\ RewriteIdle
    /\ dispPc = "given"
    /\ dispResult \in DisplayInputs
    /\ dispView = "empty"
    /\ verdict = "none"

DisplayResults ==
    /\ dispPc = "given"
    /\ dispView' = DisplayView(dispResult)
    /\ verdict' = IF DisplayView(dispResult) = "results_with_store"
                  THEN PriceDifference(dispResult.lowest, dispResult.your_store)
                  ELSE "none"
    /\ dispPc' = "shown"
    /\ UNCHANGED <<scrapeVars, priceVars, guiVars, regionVars, rewriteVars,
                   dispResult>>

SpecDisplay == DisplayInit /\ [][DisplayResults]_vars

(***************************************************************************)
(* sort_by_lowest_price: the URL it navigates to (lines 315-341), given    *)
(* the URL of the results page.  A URL is its urlparse() components; the   *)
(* query is its `&`-separated fields, each a name, a raw value and whether *)
(* it holds an `=`; the field with neither is the empty field of `&&`.     *)
(***************************************************************************)
MaxParams == 2

QueryNames == {"_sop", "_trksid", "_nkw"}
\* Raw values: blank, a number, and two spellings of "a b".
RawValues == {<<>>, <<"1", "0">>, <<"a", "%20", "b">>, <<"a", "+", "b">>}
EmptyField == [name |-> "", value |-> <<>>, eq |-> FALSE]
QueryFields ==
    {[name |-> n, value |-> v, eq |-> TRUE] : n \in QueryNames, v \in RawValues}
        \cup {[name |-> n, value |-> <<>>, eq |-> FALSE] : n \in QueryNames}
        \cup {EmptyField}

\* The results URLs: one site and path, a fragment or none, any query of up
\* to MaxParams fields.
Urls ==
    {[scheme |-> "https", netloc |-> "host", path |-> "/sch/i.html",
      params |-> "", query |-> q, fragment |-> f] :
        q \in UNION {[1..n -> QueryFields] : n \in 0..MaxParams},
        f \in {"", "top"}}

\* unquote() after `+` is replaced by a space, and quote_plus().
Unquote(raw) ==
    [k \in DOMAIN raw |-> IF raw[k] \in {"+", "%20"} THEN " " ELSE raw[k]]
QuotePlus(value) ==
    [k \in DOMAIN value |-> IF value[k] = " " THEN "+" ELSE value[k]]

KeepsBlankMut(field) == field.value # <<>>

\* parse_qs(..., keep_blank_values=True) keeps a field whose value is blank,
\* and gives a field without `=` the value ''.
KeepsBlank(field) == TRUE

\* parse_qs: empty fields are skipped; the dict holds, per name in the
\* order of first occurrence, the list of its decoded values.
parse_qs(query) ==
    LET kept == {k \in DOMAIN query :
                    query[k] # EmptyField /\ KeepsBlank(query[k])}
        firsts == {k \in kept :
                      \A j \in kept : j < k => query[j].name # query[k].name}
        Ordered(S) == CHOOSE f \in [1..Cardinality(S) -> S] :
                          \A a, b \in DOMAIN f : a < b => f[a] < f[b]
        keys == Ordered(firsts)
    IN  [n \in DOMAIN keys |->
            LET same == Ordered({k \in kept :
                                    query[k].name = query[keys[n]].name})
            IN  [name |-> query[keys[n]].name,
                 values |-> [m \in DOMAIN same |-> Unquote(query[same[m]].value)]]]

\* `params['_sop'] = ['15']`: the entry is replaced where it stands, or
\* added at the end.
SetSop(params) ==
    IF \E n \in DOMAIN params : params[n].name = "_sop"
    THEN [n \in DOMAIN params |->
            IF params[n].name = "_sop"
            THEN [name |-> "_sop", values |-> << <<"1", "5">> >>]
            ELSE params[n]]
    ELSE Append(params, [name |-> "_sop", values |-> << <<"1", "5">> >>])

\* `params.pop('_trksid', None)`
PopTrksid(params) ==
    LET keep == {n \in DOMAIN params : params[n].name # "_trksid"}
        Ordered(S) == CHOOSE f \in [1..Cardinality(S) -> S] :
                          \A a, b \in DOMAIN f : a < b => f[a] < f[b]
    IN  [m \in 1..Cardinality(keep) |-> params[Ordered(keep)[m]]]

\* urlencode(params, doseq=True): one `name=value` field per value.
RECURSIVE urlencode(_)
urlencode(params) ==
    IF params = <<>> THEN <<>>
    ELSE [m \in DOMAIN Head(params).values |->
             [name |-> Head(params).name,
              value |-> QuotePlus(Head(params).values[m]), eq |-> TRUE]]
         \o urlencode(Tail(params))

\* new_url: urlunparse of the components of current_url with the new query.
NewUrl(current_url) ==
    [current_url EXCEPT
        !.query = urlencode(PopTrksid(SetSop(parse_qs(current_url.query))))]

RewriteInit ==
    /\ ScrapeIdle /\ PriceIdle /\ GuiIdle /\ RegionIdle /\ DisplayIdle
    /\ rwPc = "results"
    /\ rwUrl \in Urls
    /\ rwTarget = Unset

\* `self.page.goto(new_url, timeout=30000)`: the navigation is asked for.
SortGoto ==
    /\ rwPc = "results"
    /\ rwTarget' = NewUrl(rwUrl)
    /\ rwPc' = "navigating"
    /\ UNCHANGED <<scrapeVars, priceVars, guiVars, regionVars, displayVars,
                   rwUrl>>

SpecRewrite == RewriteInit /\ [][SortGoto]_vars

(***************************************************************************)
(* The region of an EbayScraper: __init__, the region part of start(), and *)
(* set_delivery_location, with a region code chosen by the caller.         *)
(***************************************************************************)
UK == <<"U", "K">>
US == <<"U", "S">>
DE == <<"D", "E">>
FR == <<"F", "R">>
AU == <<"A", "U">>
CA == <<"C", "A">>
KnownRegions == {UK, US, DE, FR, AU, CA}
\* Codes no table holds: another country, lower case, empty, with a quote.
UnknownRegions == {<<"Z", "Z">>, <<"u", "k">>, <<>>, <<"U", "'", "K">>}
RegionCodes == KnownRegions \cup UnknownRegions

EBAY_REGIONS ==
    [c \in KnownRegions |->
        CASE c = UK -> "https://www.ebay.co.uk"
          [] c = US -> "https://www.ebay.com"
          [] c = DE -> "https://www.ebay.de"
          [] c = FR -> "https://www.ebay.fr"
          [] c = AU -> "https://www.ebay.com.au"
          [] c = CA -> "https://www.ebay.ca"]

geolocation_settings ==
    [c \in KnownRegions |->
        CASE c = UK -> [latitude |-> "51.5074", longitude |-> "-0.1278",
                        locale |-> "en-GB"]
          [] c = US -> [latitude |-> "37.7749", longitude |-> "-122.4194",
                        locale |-> "en-US"]
          [] c = DE -> [latitude |-> "52.5200", longitude |-> "13.4050",
                        locale |-> "de-DE"]
          [] c = FR -> [latitude |-> "48.8566", longitude |-> "2.3522",
                        locale |-> "fr-FR"]
          [] c = AU -> [latitude |-> "-33.8688", longitude |-> "151.2093",
                        locale |-> "en-AU"]
          [] c = CA -> [latitude |-> "43.6532", longitude |-> "-79.3832",
                        locale |-> "en-CA"]]

region_postcodes ==
    [c \in KnownRegions |->
        CASE c = UK -> "SW1A 1AA"
          [] c = US -> "10001"
          [] c = DE -> "10115"
          [] c = FR -> "75001"
          [] c = AU -> "2000"
          [] c = CA -> "M5H 2N2"]

KeyError == [raises |-> "KeyError"]

GetMut(table, key, default) ==
    IF key \in DOMAIN table THEN [value |-> table[key]] ELSE KeyError

\* dict.get(key, default)
Get(table, key, default) ==
    IF key \in DOMAIN table THEN [value |-> table[key]]
    ELSE [value |-> default]

RegionInit ==
    /\ ScrapeIdle /\ PriceIdle /\ GuiIdle /\ DisplayIdle /\ RewriteIdle
    /\ regionPc = "new"
    /\ region \in RegionCodes /\ headless \in BOOLEAN
    /\ ebayUrl = "unset" /\ ctxLocale = "unset" /\ ctxGeo = Unset
    /\ cookiesFor = NONE /\ seeded = FALSE
    /\ lsPostcode = "unset" /\ lsCountry = NONE
    /\ locRet = "unset" /\ lookupRaised = FALSE

\* EbayScraper.__init__
Construct ==
    /\ regionPc = "new"
    /\ LET url == Get(EBAY_REGIONS, region, EBAY_REGIONS[UK])
       IN  IF url = KeyError
           THEN lookupRaised' = TRUE /\ regionPc' = "raised"
                /\ UNCHANGED ebayUrl
           ELSE ebayUrl' = url.value /\ regionPc' = "constructed"
                /\ UNCHANGED lookupRaised
    /\ UNCHANGED <<scrapeVars, priceVars, guiVars, displayVars,
                   rewriteVars, region, headless, ctxLocale,
                   ctxGeo, cookiesFor, seeded, lsPostcode, lsCountry, locRet>>

\* EbayScraper.start: the launch, region_settings, the cookies file named
\* after self.region.lower(), and the context made with locale, geolocation
\* and, when the file exists, the saved session state.
StartRegion ==
    /\ regionPc = "constructed"
    /\ \E env \in {"ok", "launch_fails", "context_fails"}, exists \in BOOLEAN :
         LET settings == Get(geolocation_settings, region,
                             geolocation_settings[UK])
         IN  IF env = "launch_fails"
             THEN /\ regionPc' = "failed"
                  /\ UNCHANGED <<ctxLocale, ctxGeo, cookiesFor, seeded,
                                 lookupRaised>>
             ELSE IF settings = KeyError
             THEN /\ lookupRaised' = TRUE /\ regionPc' = "raised"
                  /\ UNCHANGED <<ctxLocale, ctxGeo, cookiesFor, seeded>>
             ELSE IF env = "context_fails"
             THEN /\ regionPc' = "failed"
                  /\ UNCHANGED <<ctxLocale, ctxGeo, cookiesFor, seeded,
                                 lookupRaised>>
             ELSE /\ ctxLocale' = settings.value.locale
                  /\ ctxGeo' = [latitude |-> settings.value.latitude,
                                longitude |-> settings.value.longitude]
                  /\ cookiesFor' = Lower(region)
                  /\ seeded' = exists
                  /\ regionPc' = "started"
                  /\ UNCHANGED lookupRaised
    /\ UNCHANGED <<scrapeVars, priceVars, guiVars, displayVars,
                   rewriteVars, region, headless, ebayUrl,
                   lsPostcode, lsCountry, locRet>>

\* EbayScraper.set_delivery_location: the lookup and page.evaluate stand in
\* one try whose `except Exception` returns False.
SetDeliveryLocation ==
    /\ regionPc = "started"
    /\ \E eval \in {"ok", "raises"} :
         LET postcode == Get(region_postcodes, region, region_postcodes[UK])
         IN  IF postcode = KeyError \/ eval = "raises"
             THEN /\ locRet' = "False"
                  /\ UNCHANGED <<lsPostcode, lsCountry>>
             ELSE /\ lsPostcode' = postcode.value
                  /\ lsCountry' = region
                  /\ locRet' = "True"
    /\ regionPc' = "located"
    /\ UNCHANGED <<scrapeVars, priceVars, guiVars, displayVars,
                   rewriteVars, region, headless, ebayUrl,
                   ctxLocale, ctxGeo, cookiesFor, seeded, lookupRaised>>

RegionNext == Construct \/ StartRegion \/ SetDeliveryLocation

SpecRegion == RegionInit /\ [][RegionNext]_vars

(***************************************************************************)
(* Properties.                                                             *)
(***************************************************************************)
\* scrape() has returned or raised to its caller.
Returned == pc \in {"returned", "shown", "exited"}
\* scrape() is past its stages.
Leaving == pc \in {"close", "returned", "shown", "exited"}
StageRan(stage) == \E k \in DOMAIN stages : stages[k] = stage
SearchErrors == {"timeout", "error", "nobox"}

\* C1: close() is called exactly once per scrape(), not before the stages
\* are over and before scrape() returns or raises, on every path; and a
\* browser that was launched has been closed by then.
C1_CloseOnceAndReleases ==
    /\ closeCalls <= 1
    /\ (closeCalls = 1) = Returned
    /\ Returned => (launched => released)

\* start() raised after the browser was launched, and scrape() has ended.
C1_Witness ==
    /\ Returned /\ raised /\ launched /\ ~context
    /\ closeCalls = 1 /\ released

\* C2 (as claimed): once the store matcher has started, scrape() ends with
\* a result that holds `lowest`, whatever the matcher's steps do.
C2_StoreMatchingNeverFails ==
    (Returned /\ StageRan("match")) =>
        (~raised /\ "lowest" \in DOMAIN scrapeRet)

\* C3: a failed sort does not end scrape(): extraction is attempted, and
\* when extraction succeeds scrape() returns its result.
C3_SortFailureIsSoft ==
    sortRet = "False" =>
        /\ ~raised
        /\ pc = "ex_item" \/ StageRan("extract")
        /\ (Returned /\ "lowest" \in DOMAIN extractRet) =>
               scrapeRet = extractRet

\* The sort failed, extraction succeeded, scrape() returned the listing.
C3_Witness ==
    /\ Returned /\ sortRet = "False"
    /\ "lowest" \in DOMAIN scrapeRet

\* C4: after a failed search (Failure or NoResults) scrape() returns None
\* and neither sort nor extraction nor store matching runs.
C4_SearchFailureStops ==
    searchRet = "False" =>
        /\ Leaving
        /\ scrapeRet = NoResult
        /\ ~StageRan("sort") /\ ~StageRan("extract") /\ ~StageRan("match")

\* A no-results page ended the scrape.
C4_Witness ==
    /\ Returned /\ searchRet = "False" /\ searchCause = "sentinel"
    /\ stages = <<"start", "search", "close">>

\* C5 (as claimed): with no sentinel visible and no result card within the
\* bounded wait, search_product returns False and the pipeline stops.
C5_NoCardsInTimeIsNoResults ==
    searchCause = "nocards_in_time" => (searchRet = "False" /\ Leaving)

\* C5 (amended): with no sentinel visible, a zero count after a successful
\* wait returns False and the pipeline stops; no card within the bounded
\* wait (or a failing wait or count) returns True and the pipeline goes on
\* to sort.
C5_ZeroCountIsNoResults ==
    /\ searchCause = "zero" =>
          (searchRet = "False" /\ Leaving /\ ~StageRan("sort"))
    /\ searchCause \in {"nocards_in_time", "wait_failed", "count_failed"} =>
          (searchRet = "True" /\ pc = "sort")

\* No sentinel, no card in time: the search succeeded and sort is next.
C5_Witness ==
    searchCause = "nocards_in_time" /\ searchRet = "True" /\ pc = "sort"

\* C6 (as claimed): when a visible no-results sentinel ended the search,
\* what search_product returned, what scrape() returned and what the GUI
\* shows each differ from what an error in the search produces.
C6_NoResultsDistinguishable ==
    (pc = "shown" /\ searchCause = "sentinel") =>
        \A e \in SearchErrors :
            /\ searchRet # SearchAborts(e)
            /\ scrapeRet # ScrapeOnSearch(SearchAborts(e))
            /\ shown # DisplayKind(ScrapeOnSearch(SearchAborts(e)))

\* C7: with the first card absent, or no link candidate resolving in it,
\* or no price candidate giving a price, extract_lowest_price returns
\* None, the store matcher does not start, and scrape() returns None.
C7_ExtractionHardFails ==
    (envCard = "absent" \/ envLink = "none" \/ envPrice = "none") =>
        /\ Leaving
        /\ extractRet = NoResult
        /\ scrapeRet = NoResult
        /\ ~StageRan("match")

\* Card and link were there, no candidate gave a price, scrape() ended.
C7_Witness ==
    /\ Returned /\ envCard = "present" /\ envLink = "resolvable"
    /\ envPrice = "none" /\ Truthy(storeName)

\* C8: the store matcher reads at most the first ScanLimit cards, and
\* your_store never comes from a later one.
C8_ScanBound ==
    /\ examined <= ScanLimit
    /\ storeFrom <= ScanLimit
    /\ pc \in {"st_scan", "st_link", "st_nav", "st_price"} => i < ScanLimit

\* A page with more cards than the limit was scanned to the limit.
C8_Witness ==
    /\ Returned /\ moreCards /\ examined = ScanLimit
    /\ "your_store" \notin DOMAIN scrapeRet

\* C9 (as claimed): once a card containing the store name has been read no
\* further card is read, and your_store comes from the first such card.
C9_FirstMatchEndsScan ==
    [][/\ matchesSeen >= 1 => examined' = examined
       /\ storeFrom' # 0 => matchesSeen' = 1]_vars

\* C10: your_store is in the result only if a store name was given and a
\* card among the first ScanLimit contains it, letter case ignored; with
\* no name or an empty one the matcher does not go back, reads no card and
\* sets no your_store; the GUI passes None for a blank store field.
C10_YourStoreOnlyIfMatched ==
    /\ ("your_store" \in DOMAIN scrapeRet \/ "your_store" \in DOMAIN result) =>
          /\ Truthy(storeName)
          /\ storeFrom \in 1..ScanLimit
          /\ ContainsIgnoringCase(storeHtml, storeName)
    /\ ~Truthy(storeName) =>
          /\ ~StageRan("match")
          /\ examined = 0
          /\ "your_store" \notin DOMAIN scrapeRet
    /\ caller = "gui" => (storeName = NONE \/ Strip(storeName) # <<>>)

\* your_store was taken from a card that spells the name in another case.
C10_Witness ==
    /\ Returned /\ "your_store" \in DOMAIN scrapeRet
    /\ storeName = <<"a", "B">> /\ storeHtml = <<"A", "b", "x">>

(***************************************************************************)
(* Properties of clean_price (SpecPrice).                                  *)
(***************************************************************************)
HasDigit(text) == text # NONE /\ \E k \in DOMAIN text : text[k] \in Digits

\* C11 (as claimed): clean_price returns None for every text that holds no
\* digit, whatever else it holds.
C11_NoDigitIsInvalid ==
    (pricePc # "input" /\ ~HasDigit(priceText)) => cleaned = NONE

\* C12: clean_price is idempotent: applied to a result that is a price it
\* returns that result, sign and numeric text alike.
C12_Idempotent ==
    pricePc = "recleaned" => recleaned = cleaned

\* A text that clean_price changed (what precedes the sign is dropped, the
\* blank between sign and number is kept) and whose result it then kept.
C12_Witness ==
    /\ pricePc = "recleaned"
    /\ priceText = <<"x", "gbp", " ", "1", ".">>
    /\ cleaned = <<"gbp", " ", "1", ".">>
    /\ recleaned = cleaned

\* The sign the pattern captures in the stripped text s: the currency sign
\* that stands before the first numeric character, with nothing but
\* whitespace between them; <<>> when no sign stands there.
CapturedSymbol(s) ==
    LET nums == {k \in DOMAIN s : s[k] \in NumChars}
        n == CHOOSE k \in nums : \A j \in nums : k <= j
        blanks == {w \in 1..n : \A k \in w..(n - 1) : s[k] \in Ws}
        w == CHOOSE k \in blanks : \A j \in blanks : k <= j
    IN  IF w > 1 /\ s[w - 1] \in Syms THEN <<s[w - 1]>> ELSE <<>>

\* C13: a result that is a price starts with exactly one currency sign: the
\* one the pattern captured before the numeric text when there is one, "$"
\* otherwise.  clean_price reads nothing but its argument, the scraper's
\* region included.
C13_OneSymbolInFront ==
    (pricePc # "input" /\ cleaned # NONE) =>
        /\ cleaned[1] \in Syms
        /\ Len(cleaned) >= 2 /\ cleaned[2] \notin Syms
        /\ cleaned[1] = IF CapturedSymbol(Strip(priceText)) # <<>>
                        THEN CapturedSymbol(Strip(priceText))[1]
                        ELSE "$"

\* A text with a sign that the pattern does not capture: the result starts
\* with "$".
C13_Witness ==
    /\ pricePc = "cleaned"
    /\ priceText = <<"gbp", "x", "1", ".", "1">>
    /\ cleaned = <<"$", "1", ".", "1">>

(***************************************************************************)
(* Properties of the selector loops of search_product (Spec).              *)
(***************************************************************************)
\* search_product is past the loop over search_selectors with a search_box.
InputChosen ==
    pc \in {"search_fill", "search_button", "search_submit", "search_results"}
\* search_product is past the loop over search_button_selectors.
ButtonResolved == pc \in {"search_submit", "search_results"}

\* C14: the search input chosen is the first candidate in list order that
\* the environment answered visible for (a raising probe is not visible),
\* and no candidate after it is probed; the same holds for the submit
\* control; and "Could not find search box" is returned only after every
\* candidate was probed and none was visible, with neither fill nor submit
\* called.
C14_FirstVisibleCandidate ==
    /\ InputChosen =>
          /\ searchBox # 0
          /\ searchBox = inputSeen
          /\ inputProbed = searchBox
    /\ ButtonResolved =>
          /\ searchButton = buttonSeen
          /\ buttonProbed = IF searchButton # 0 THEN searchButton
                            ELSE NumButtonSelectors
    /\ searchCause = "nobox" =>
          /\ searchRet = "False"
          /\ inputProbed = NumSearchSelectors
          /\ inputSeen = 0
          /\ ~filled /\ submitVia = <<>>
    /\ (pc = "search_input" \/ searchCause = "nobox") => inputSeen = 0

\* The second input candidate was chosen after a probe raised, and the last
\* but one submit candidate after the earlier ones were not visible.
C14_Witness ==
    /\ pc = "search_submit"
    /\ probeRaised
    /\ searchBox = 2 /\ inputProbed = 2
    /\ searchButton = 3 /\ buttonProbed = 3

\* Every input candidate was probed, one probe raised, none was visible.
C14_WitnessNotFound ==
    /\ Returned /\ searchCause = "nobox" /\ probeRaised
    /\ inputProbed = NumSearchSelectors

(***************************************************************************)
(* Properties of the GUI's threads (SpecGui).                              *)
(***************************************************************************)
\* Worker threads inside scrape().
ActiveScrapes == Cardinality({w \in Workers : wpc[w] = "scraping"})

\* C15: at most one scrape is active at any time, and a start_search call
\* made while is_scraping is true starts no worker (hence no browser) and
\* leaves is_scraping, the results area, the progress bar and the button as
\* they are; nothing is queued for later.
C15_OneScrapeAtATime ==
    [][/\ ActiveScrapes' <= 1
       /\ (requests' = requests + 1 /\ isScraping) =>
              UNCHANGED <<isScraping, resultsArea, progress, buttonState,
                          started, wpc, workerGot, scheduledBy, queue>>]_vars

\* A start_search call with a search term was turned away while the first
\* worker was inside scrape().
C15_Witness ==
    /\ lastWarning = "Busy" /\ isScraping
    /\ started = 1 /\ wpc[1] = "scraping" /\ wpc[2] = "unborn"
    /\ resultsArea = "empty" /\ progress = "running"

\* C16: a worker that has left run_scraper has handed exactly one callback
\* to root.after: display_error when scrape() raised, display_results when
\* it returned a result or None; before that it has handed over none.
C16_ExactlyOneCallback ==
    \A w \in Workers :
        /\ wpc[w] = "done" =>
              /\ Len(scheduledBy[w]) = 1
              /\ scheduledBy[w][1] = IF workerGot[w] = Raises
                                      THEN "display_error"
                                      ELSE "display_results"
        /\ wpc[w] # "done" => scheduledBy[w] = <<>>

\* One worker's scrape() returned None, the next one's raised.
C16_Witness ==
    /\ wpc[1] = "done" /\ workerGot[1] = NoResult
    /\ scheduledBy[1] = <<"display_results">>
    /\ wpc[2] = "done" /\ workerGot[2] = Raises
    /\ scheduledBy[2] = <<"display_error">>

(***************************************************************************)
(* Properties of a listing's url (Spec).                                   *)
(***************************************************************************)
\* The URL built for the card in hand: from the listing id when the card
\* carries one, the link's href otherwise.
CardUrl == IF Truthy(cardId) THEN ItmUrl(cardId) ELSE cardHref

\* C17 (as claimed): the url of `lowest` and of `your_store` is the URL built
\* for the card, from its listing id or else from the link's href.
C17_UrlFromCard ==
    [][/\ (pc = "ex_price" /\ "lowest" \in DOMAIN result') =>
              result'.lowest.url = productUrl
       /\ (pc = "ex_price" /\ "lowest" \in DOMAIN extractRet') =>
              extractRet'.lowest.url = productUrl
       /\ (pc = "st_price" /\ "your_store" \in DOMAIN extractRet') =>
              extractRet'.your_store.url = storeUrl]_vars

\* C17 (amended): the URL built for the card, from its listing id or else
\* from the link's href, is where the browser is sent; the url of `lowest`
\* and of `your_store` is the URL of the page the browser is on after that
\* navigation: the URL built when the site serves it, the target of the
\* redirect when the site redirects.
C17_UrlIsLandedPage ==
    [][/\ (pc = "ex_link" /\ pc' = "ex_nav") => productUrl' = CardUrl'
       /\ (pc = "st_link" /\ pc' = "st_nav") => storeUrl' = CardUrl'
       /\ (pc = "ex_nav" /\ pc' = "ex_price") =>
              pageUrl' \in {productUrl, Redirected}
       /\ (pc = "st_nav" /\ pc' = "st_price") =>
              pageUrl' \in {storeUrl, Redirected}
       /\ (pc = "ex_price" /\ "lowest" \in DOMAIN result') =>
              result'.lowest.url = pageUrl
       /\ (pc = "ex_price" /\ "lowest" \in DOMAIN extractRet') =>
              extractRet'.lowest.url = pageUrl
       /\ (pc = "st_price" /\ "your_store" \in DOMAIN extractRet') =>
              extractRet'.your_store.url = pageUrl]_vars

\* The lowest listing's page was reached through a redirect, the store
\* listing's page under the URL built from its listing id.
C17_Witness ==
    /\ Returned /\ "your_store" \in DOMAIN scrapeRet
    /\ scrapeRet.lowest.url = Redirected
    /\ scrapeRet.your_store.url = ItmUrl(<<"7">>)

(***************************************************************************)
(* Properties of the region settings (SpecRegion).                         *)
(***************************************************************************)
\* C18: with a region code that is none of UK, US, DE, FR, AU, CA the base
\* URL, the locale, the geolocation and the postcode are those of UK, and
\* no lookup of the code raises in __init__, start() or
\* set_delivery_location.
C18_UnknownRegionIsUK ==
    region \in UnknownRegions =>
        /\ ~lookupRaised /\ regionPc # "raised"
        /\ regionPc # "new" => ebayUrl = "https://www.ebay.co.uk"
        /\ regionPc \in {"started", "located"} =>
              /\ ctxLocale = "en-GB"
              /\ ctxGeo = [latitude |-> "51.5074", longitude |-> "-0.1278"]
        /\ (regionPc = "located" /\ locRet = "True") =>
              lsPostcode = "SW1A 1AA"

\* A scraper made for region ZZ has been started and given its location.
C18_Witness ==
    /\ region = <<"Z", "Z">> /\ regionPc = "located" /\ locRet = "True"
    /\ ebayUrl = "https://www.ebay.co.uk" /\ lsPostcode = "SW1A 1AA"
    /\ lsCountry = <<"Z", "Z">> /\ cookiesFor = <<"z", "z">>

(***************************************************************************)
(* Properties of failures in start() and in close() (Spec).                *)
(***************************************************************************)
\* start() raised before the context existed: the driver, the launch or the
\* context failed.
LaunchFailed == raised /\ ~context

\* C19: when the browser or the context fails to launch in start(), no
\* search, sort, extraction or store matching runs, scrape() raises to its
\* caller instead of returning a result or None, and the GUI shows the
\* error through display_error.
C19_LaunchFailureAborts ==
    LaunchFailed =>
        /\ Leaving
        /\ ~StageRan("search") /\ ~StageRan("sort")
        /\ ~StageRan("extract") /\ ~StageRan("match")
        /\ scrapeRet = Unset
        /\ pc = "shown" => shown = "error"

\* The browser was launched, the context failed, the GUI showed the error.
C19_Witness ==
    /\ pc = "shown" /\ caller = "gui" /\ shown = "error"
    /\ raised /\ launched /\ ~context
    /\ stages = <<"start", "close">>

\* C20: close() leaves the outcome of scrape() as it is, whether the save
\* of the session state succeeds or fails, and after a failed save the
\* browser is closed and the driver stopped all the same.
C20_SaveFailureSwallowed ==
    [][pc = "close" =>
          /\ raised' = raised /\ scrapeRet' = scrapeRet
          /\ saved' = "failed" => (released' /\ stopped')]_vars

\* The save failed after a scrape that found a listing: the listing is
\* what scrape() returned, and browser and driver are released.
C20_Witness ==
    /\ Returned /\ saved = "failed" /\ ~raised
    /\ "lowest" \in DOMAIN scrapeRet
    /\ released /\ stopped

(***************************************************************************)
(* display_results: the price comparison.                                  *)
(***************************************************************************)
\* The number a normalized price carries, whichever currency sign
\* clean_price left in front of it.
NumberOf(price) == float(Strip(Remove(price, Syms \cup {","})))

ShownWithStore == dispPc = "shown" /\ dispView = "results_with_store"

\* C21: when a result holds both lowest and your_store, one verdict
\* (more expensive, cheaper, matches) follows the sign of your price minus
\* the lowest price whenever both prices are numbers, whichever sign the
\* normalizer left on them; when a price is not a number the comparison is
\* skipped and the result is displayed all the same.
C21_VerdictForEverySymbol ==
    ShownWithStore =>
        LET l == NumberOf(dispResult.lowest.price)
            y == NumberOf(dispResult.your_store.price)
        IN  IF l # ValueError /\ y # ValueError
            THEN verdict = Sign(y, l)
            ELSE verdict = "skipped"

(***************************************************************************)
(* handle_cookie_consent                                                   *)
(***************************************************************************)
\* C22: handle_cookie_consent never raises to search_product, whatever its
\* probes and clicks do: each step of it stays in the method or hands over
\* to the resolution of the search input, with nothing raised and nothing
\* returned by search_product or scrape(); a click that succeeds ends the
\* method, so at most one consent click succeeds; and past the last
\* candidate the search input is resolved even when nothing was clicked.
C22_ConsentNeverBlocksSearch ==
    [][pc = "consent" =>
          /\ pc' \in {"consent", "search_input"}
          /\ raised' = raised /\ searchRet' = searchRet
          /\ scrapeRet' = scrapeRet
          /\ consentClicks' > consentClicks => pc' = "search_input"
          /\ consentClicks' <= 1
          /\ consentIdx = NumConsentSelectors => pc' = "search_input"]_vars

\* The search input is about to be resolved after a consent click that
\* succeeded.
C22_Witness ==
    /\ pc = "search_input" /\ consentClicks = 1
    /\ searchRet = "unset" /\ ~raised

\* The search input is about to be resolved and no consent control was
\* clicked.
C22_WitnessNoConsent ==
    /\ pc = "search_input" /\ consentClicks = 0
    /\ searchRet = "unset" /\ ~raised

(***************************************************************************)
(* scrape(): the order of its stages.                                      *)
(***************************************************************************)
StageOrder == <<"start", "search", "sort", "extract", "match", "close">>
StageRank(stage) == CHOOSE k \in DOMAIN StageOrder : StageOrder[k] = stage

\* C23: in every scrape() the stages run in the order start, search, sort,
\* extraction, store matching, close, each at most once and none after
\* close; and once scrape() is past its stages, sort has been attempted
\* exactly when search succeeded and so has extraction, whatever sort
\* returned.
C23_StagesInOrder ==
    /\ \A j, k \in DOMAIN stages :
         j < k => StageRank(stages[j]) < StageRank(stages[k])
    /\ Leaving =>
         /\ StageRan("sort") <=> searchRet = "True"
         /\ StageRan("extract") <=> searchRet = "True"

\* A scrape() whose sort failed went through all six stages in order.
C23_Witness ==
    /\ Returned /\ sortRet = "False"
    /\ stages = StageOrder

(***************************************************************************)
(* extract_lowest_price: the price loops.                                  *)
(***************************************************************************)
PriceLoops == {"ex_price", "st_price"}

\* The price the loop that just ended has stored.
StoredPrice ==
    IF pc = "st_back" THEN result.lowest.price
    ELSE IF "your_store" \in DOMAIN scrapeRet THEN scrapeRet.your_store.price
    ELSE scrapeRet.lowest.price

\* C24 as stated: on a detail page the first visible price candidate wins:
\* no later candidate is tried once a candidate has been found visible, and
\* the stored price is the normalization of the text of the candidate the
\* loop stopped at.
C24_FirstVisibleWins ==
    /\ pc \in PriceLoops => priceSeen = NONE
    /\ priceFrom # NONE => StoredPrice = clean_price(priceFrom)

\* C24, amended: a price loop goes on past a visible candidate only when
\* clean_price finds no price in its text; the first visible candidate
\* whose text has a price ends the loop, and the stored price is the
\* normalization of that candidate's text.
C24_FirstPricedCandidateWins ==
    /\ (pc \in PriceLoops /\ priceSeen # NONE) => clean_price(priceSeen) = NONE
    /\ priceFrom # NONE =>
         /\ pc \notin PriceLoops
         /\ StoredPrice = clean_price(priceFrom)
         /\ StoredPrice # NONE

\* A price loop is about to try a later candidate after a visible one
\* whose text has no price in it.
C24_Witness ==
    /\ pc \in PriceLoops /\ priceIdx >= 1
    /\ priceSeen # NONE /\ clean_price(priceSeen) = NONE

\* The lowest listing's price has just been stored from a candidate's text.
C24_WitnessStored ==
    /\ pc = "st_back" /\ priceFrom # NONE
    /\ result.lowest.price = clean_price(priceFrom)

(***************************************************************************)
(* sort_by_lowest_price: the URL it navigates to.                          *)
(***************************************************************************)
\* The decoded values a query gives to `name`, in order.  A field without
\* `=` gives the blank value; the empty field gives nothing.
ValuesOf(query, name) ==
    LET at == {k \in DOMAIN query : query[k] # EmptyField /\ query[k].name = name}
        nth(m) == CHOOSE k \in at : Cardinality({j \in at : j < k}) = m - 1
    IN  [m \in 1..Cardinality(at) |-> Unquote(query[nth(m)].value)]

\* C25: the URL sort_by_lowest_price navigates to has exactly one _sop
\* parameter, with value 15, and no _trksid parameter; its scheme, host,
\* path and fragment are those of the current results URL, and every other
\* query parameter has the same values as there.
C25_SortUrl ==
    rwPc = "navigating" =>
        /\ ValuesOf(rwTarget.query, "_sop") = << <<"1", "5">> >>
        /\ ValuesOf(rwTarget.query, "_trksid") = <<>>
        /\ rwTarget.scheme = rwUrl.scheme /\ rwTarget.netloc = rwUrl.netloc
        /\ rwTarget.path = rwUrl.path /\ rwTarget.fragment = rwUrl.fragment
        /\ \A n \in (QueryNames \cup {""}) \ {"_sop", "_trksid"} :
             ValuesOf(rwTarget.query, n) = ValuesOf(rwUrl.query, n)
        /\ \A k \in DOMAIN rwTarget.query :
             rwTarget.query[k].name \in QueryNames \ {"_trksid"}

\* The results URL held another sort order, a tracking parameter and a
\* fragment, and the navigation went to the rewritten URL.
C25_Witness ==
    /\ rwPc = "navigating"
    /\ ValuesOf(rwUrl.query, "_sop") = << <<"1", "0">> >>
    /\ ValuesOf(rwUrl.query, "_trksid") # <<>>
    /\ rwUrl.fragment = "top"

(***************************************************************************)
(* search_product: the submit step.                                        *)
(***************************************************************************)
\* C26: a search that reaches the submit step makes exactly one submit
\* call: a click on the first visible submit-control candidate when there
\* is one, otherwise a press of Enter on the search input that was
\* resolved - never both and never neither.
C26_ExactlyOneSubmit ==
    [][pc = "search_submit" =>
          /\ Len(submitVia') = 1
          /\ submitVia'[1] = IF buttonSeen # 0
                             THEN [act |-> "click", on |-> buttonSeen]
                             ELSE [act |-> "press", on |-> inputSeen]]_vars

\* No submit control was visible and Enter was pressed on the second input
\* candidate; the results page is being awaited.
C26_Witness ==
    /\ pc = "search_results"
    /\ buttonSeen = 0 /\ buttonProbed = NumButtonSelectors
    /\ submitVia = <<[act |-> "press", on |-> 2]>>

\* The second submit-control candidate was the first visible one and was
\* clicked.
C26_WitnessClick ==
    /\ pc = "search_results"
    /\ submitVia = <<[act |-> "click", on |-> 2]>>

(***************************************************************************)
(* scrape(): what a result holds.                                          *)
(***************************************************************************)
\* A price clean_price returns for a text of a detail page, None excluded.
NormalizedPrices == {clean_price(t) : t \in PriceTexts} \ {NONE}

WellFormed(listing) ==
    /\ DOMAIN listing = {"title", "price", "url"}
    /\ listing.title # NONE /\ listing.url # NONE
    /\ listing.price \in NormalizedPrices

\* scrape() has returned something other than None.
ReturnedResult == Returned /\ ~raised /\ scrapeRet \notin {NoResult, Unset}

\* C27: every result scrape() returns, the failure outcome apart, holds
\* lowest with a title, a url and a price that clean_price returned and
\* that is not None; your_store, when present, holds the same; and a
\* matched store listing without such a price is not in the result.
C27_ResultsCarryPrices ==
    ReturnedResult =>
        /\ "lowest" \in DOMAIN scrapeRet
        /\ DOMAIN scrapeRet \subseteq {"lowest", "your_store"}
        /\ \A key \in DOMAIN scrapeRet : WellFormed(scrapeRet[key])
        /\ "your_store" \in DOMAIN scrapeRet <=> storeFrom # 0

\* A result with both listings.
C27_Witness ==
    /\ ReturnedResult
    /\ "your_store" \in DOMAIN scrapeRet

\* A card of the store matched, its page showed no price, and the result
\* holds the lowest listing only.
C27_WitnessDropped ==
    /\ ReturnedResult
    /\ matchesSeen >= 1 /\ storeFrom = 0
    /\ DOMAIN scrapeRet = {"lowest"}

(***************************************************************************)
(* scrape(): termination.                                                  *)
(***************************************************************************)
\* scrape() is over: it returned or raised, after close().
Terminated == Returned /\ closeCalls = 1

\* C28: every started scrape() reaches a terminal outcome - a result, None
\* or a propagated error - with close() executed, given that each browser
\* operation returns or times out; by then the store scan has examined at
\* most 50 cards and no stage has run twice.  (Under SpecLive a scrape is
\* started in every behaviour, so "eventually" is counted from Init.)
C28_ScrapeTerminates ==
    <>(/\ Terminated
       /\ examined <= ScanLimit
       /\ \A j, k \in DOMAIN stages : j # k => stages[j] # stages[k])

\* A scrape() that examined the most cards the scan allows has returned.
C28_Witness ==
    /\ Returned /\ closeCalls = 1
    /\ examined = ScanLimit /\ moreCards

(***************************************************************************)
(* main(): the report of a result.                                         *)
(***************************************************************************)
\* C29: when scrape() returns a result, main() reports success - it prints
\* the lowest listing's title, price and url - and takes neither the
\* "unexpected error" nor the "could not find product information" path.
C29_MainReportsSuccess ==
    (pc = "exited" /\ ~raised /\ scrapeRet # NoResult) => shown = "success"

(***************************************************************************)
(* The GUI's is_scraping flag (SpecGuiLive).                               *)
(***************************************************************************)
\* A scrape was accepted and its callback has not run yet.
InFlight ==
    \/ \E w \in Workers : wpc[w] \in {"scraping", "scraped"}
    \/ queue # <<>>

\* C30: after every started scrape - ended by a result, None or an
\* exception - is_scraping is eventually false again and the search button
\* enabled, by the callback on the foreground thread; a start_search with a
\* search term is then accepted; and is_scraping is true exactly from the
\* accepted start_search until that callback has run.
C30_ScrapingFlagResets ==
    /\ [](isScraping <=> InFlight)
    /\ [](~isScraping => buttonState = "normal")
    /\ [][(requests' = requests + 1 /\ ~isScraping /\ lastWarning' # "No Input")
             => isScraping']_vars
    /\ isScraping ~> (~isScraping /\ buttonState = "normal")

\* A second search was accepted after the first one's scrape() had raised
\* and its callback had run.
C30_Witness ==
    /\ started = 2 /\ isScraping /\ wpc[2] = "scraping"
    /\ wpc[1] = "done" /\ workerGot[1] = Raises /\ queue = <<>>

(***************************************************************************)
(* extract_lowest_price: the store matcher leaves `lowest` alone.          *)
(***************************************************************************)
\* The positions of the store matcher, from go_back() to its last price
\* candidate.
MatcherPcs == {"st_back", "st_scan", "st_link", "st_nav", "st_price"}

\* A step keeps result['lowest'], or returns it under lowest, or returns
\* None.
KeepsLowest ==
    IF pc' \in MatcherPcs THEN result'.lowest = result.lowest
    ELSE scrapeRet' = NoResult \/ scrapeRet'.lowest = result.lowest

\* C31: store matching never changes the lowest listing: every step of the
\* matcher keeps result['lowest'] as it was extracted before go_back(), and
\* a result returned from the matcher, with or without your_store, holds
\* that same title, price and url under lowest.
C31_MatcherKeepsLowest == [][(pc \in MatcherPcs) => KeepsLowest]_vars

\* A result with the store's listing, found at a later card than the first
\* and on another page than the lowest listing's.
C31_Witness ==
    /\ pc = "returned" /\ ~raised
    /\ "your_store" \in DOMAIN scrapeRet /\ storeFrom >= 2
    /\ scrapeRet.your_store.url # scrapeRet.lowest.url

\* A result returned by the matcher without a store listing, after a card
\* of the store had matched.
C31_WitnessNotFound ==
    /\ pc = "returned" /\ ~raised
    /\ stages = <<"start", "search", "sort", "extract", "match", "close">>
    /\ DOMAIN scrapeRet = {"lowest"} /\ matchesSeen >= 1

====
